---- MODULE Spec2Model ----
(***************************************************************************)
(* The ServiceNow case/incident facade (operations/servicenow_operations)  *)
(* and the paged adapter functions of plugins/servicenow_plugin, as a      *)
(* state machine.  One action per facade operation and per adapter         *)
(* function; the arguments and the server's answer to the single HTTP      *)
(* request are the inputs of the action.                                   *)
(*                                                                         *)
(* A Python value is a record [t, v]: t names its type, v holds it.  A     *)
(* Python str is the sequence of its characters.  A Python dict literal    *)
(* with fixed keys (a result envelope) is a TLA+ record.                   *)
(***************************************************************************)
EXTENDS Integers, Sequences, FiniteSets, TLC

VARIABLES env, self, pc, op, args, called, sent, resp, ret,
          store, created_sys_id, creation, inflight, traversal, assistant

vars == <<env, self, pc, op, args, called, sent, resp, ret, store, created_sys_id, creation,
          inflight, traversal, assistant>>

---------------------------------------------------------------------------
(* Python values *)

None == [t |-> "None", v |-> <<>>]
Str(s) == [t |-> "str", v |-> s]
List(l) == [t |-> "list", v |-> l]
Dict(f) == [t |-> "dict", v |-> f]

\* bool(x) of None, a str, a list or a dict: `if x:`
Truthy(x) == x.v # <<>>

Keys(d) == IF d.v = <<>> THEN {} ELSE DOMAIN d.v

\* d.get(k, default) of a dict d
Get(d, k, default) == IF k \in Keys(d) THEN d.v[k] ELSE default

\* a dict entry k: v that is set only `if v:`
IfSet(k, x) == IF Truthy(x) THEN k :> x ELSE <<>>

\* the text an f-string or str() gives for a value
Format(x) == IF x.t = "None" THEN <<"N","o","n","e">> ELSE x.v

\* sep.join(parts), parts a sequence of strings
RECURSIVE join(_, _)
join(sep, parts) ==
    IF parts = <<>> THEN <<>>
    ELSE IF Len(parts) = 1 THEN parts[1]
    ELSE parts[1] \o sep \o join(sep, Tail(parts))

\* the outcome of a call: a returned value or a raised exception
Return(x) == [raised |-> FALSE, value |-> x]
Raise(type, msg) == [raised |-> TRUE, exc |-> [type |-> type, msg |-> msg]]

---------------------------------------------------------------------------
(* Configuration and construction *)

\* the environments under which the module loads (lines 14-18 pass):
\* basic credentials only, or an API token as well
Envs ==
    { [SERVICENOW_INSTANCE |-> Str(<<"d","e","v">>),
       SERVICENOW_USERNAME |-> Str(<<"a","d","m","i","n">>),
       SERVICENOW_PASSWORD |-> Str(<<"p","w">>),
       SERVICENOW_API_TOKEN |-> tok] : tok \in {None, Str(<<"t","o","k">>)} }

json_type == Str(<<"a","p","p","l","i","c","a","t","i","o","n","/","j","s","o","n">>)

\* a construction that prefers the basic credentials when they are configured
init_basic_first(e, table_name) ==
    LET basic == Truthy(e.SERVICENOW_USERNAME) /\ Truthy(e.SERVICENOW_PASSWORD) IN
    [base_url |-> <<"h","t","t","p","s",":","/","/">> \o Format(e.SERVICENOW_INSTANCE) \o <<"/","a","p","i","/","n","o","w">>,
     case_table |-> table_name,
     headers |-> IF basic THEN ("Content-Type" :> json_type) @@ ("Accept" :> json_type)
                 ELSE ("Authorization" :> Str(<<"B","e","a","r","e","r"," ">> \o Format(e.SERVICENOW_API_TOKEN)))
                      @@ ("Content-Type" :> json_type) @@ ("Accept" :> json_type),
     auth |-> IF basic THEN List(<<e.SERVICENOW_USERNAME, e.SERVICENOW_PASSWORD>>)
              ELSE None]

\* ServiceNowOperations.__init__
init(e, table_name) ==
    [base_url |-> <<"h","t","t","p","s",":","/","/">> \o Format(e.SERVICENOW_INSTANCE)
                  \o <<"/","a","p","i","/","n","o","w">>,
     case_table |-> table_name,
     headers |-> IF Truthy(e.SERVICENOW_API_TOKEN)
                 THEN ("Authorization" :> Str(<<"B","e","a","r","e","r"," ">>
                                               \o Format(e.SERVICENOW_API_TOKEN)))
                      @@ ("Content-Type" :> json_type) @@ ("Accept" :> json_type)
                 ELSE ("Content-Type" :> json_type) @@ ("Accept" :> json_type),
     auth |-> IF Truthy(e.SERVICENOW_API_TOKEN) THEN None
              ELSE List(<<e.SERVICENOW_USERNAME, e.SERVICENOW_PASSWORD>>)]

incident_table == <<"i","n","c","i","d","e","n","t">>

---------------------------------------------------------------------------
(* The HTTP client *)

RequestTimeout == 30

\* requests.get / post / patch with headers=self.headers, auth=self.auth, timeout=30
Request(s, method, url, params, payload) ==
    [method |-> method, url |-> url, params |-> params, json |-> payload,
     headers |-> s.headers, auth |-> s.auth, timeout |-> RequestTimeout]

\* self.base_url/table/<table>
table_url(s, table) == s.base_url \o <<"/","t","a","b","l","e","/">> \o table

\* the classes under requests.exceptions.RequestException that a call can raise
RequestException == {"Timeout", "ConnectionError", "HTTPError", "JSONDecodeError"}

\* the rest of `response = requests.<verb>(...); response.raise_for_status();
\* response.json()`: the parsed body, or the exception one of the three raises
response_json(r) ==
    IF r.kind # "response" THEN Raise(r.kind, r.msg)
    ELSE IF r.status >= 400 /\ r.status < 600 THEN Raise("HTTPError", r.msg)
    ELSE IF r.body.t = "invalid"
         THEN Raise("JSONDecodeError",
                    <<"E","x","p","e","c","t","i","n","g"," ","v","a","l","u","e">>)
    ELSE Return(r.body)

\* response.json().get("result", default): a list and None have no .get
get_result(r, default) ==
    LET b == response_json(r) IN
    IF b.raised THEN b
    ELSE IF b.value.t = "dict" THEN Return(Get(b.value, "result", default))
    ELSE Raise("AttributeError",
               <<"n","o"," ","a","t","t","r","i","b","u","t","e"," ","'","g","e","t","'">>)

\* a failure envelope that carries an empty record beside the error
failure_with_record(e) == [success |-> FALSE, error |-> Str(e.msg), incident |-> Dict(<<>>)]

\* {"success": False, "error": str(e)}
failure(e) == [success |-> FALSE, error |-> Str(e.msg)]

\* except requests.exceptions.RequestException as e: return failure
except_RequestException(o) ==
    IF o.raised /\ o.exc.type \in RequestException THEN Return(failure(o.exc)) ELSE o

\* except Exception as e: return failure
except_Exception(o) == IF o.raised THEN Return(failure(o.exc)) ELSE o

---------------------------------------------------------------------------
(* The facade: case operations.  Each operator gives, for the instance s,  *)
(* the arguments and the server's answer r, the requests issued (sent)     *)
(* and the outcome (out).                                                  *)

\* a wrapper's `try: ... return self.<primitive>(...) except Exception`
try_except_Exception(call) == [call EXCEPT !.out = except_Exception(@)]

\* the 'url' of a created record's envelope
nav_url(e, table, result) ==
    Str(<<"h","t","t","p","s",":","/","/">> \o Format(e.SERVICENOW_INSTANCE)
        \o <<"/","n","a","v","_","t","o",".","d","o","?","u","r","i","=">> \o table
        \o <<".","d","o","?","s","y","s","_","i","d","=">>
        \o Format(Get(result, "sys_id", None)))

create_case(e, s, short_description, description, priority, contact, account, category, additional_fields, r) ==
    LET payload == ("short_description" :> short_description)
                   @@ ("priority" :> priority)
                   @@ IfSet("description", description)
                   @@ IfSet("contact", contact)
                   @@ IfSet("account", account)
                   @@ IfSet("category", category)
        updated == IF Truthy(additional_fields)
                   THEN additional_fields.v @@ payload ELSE payload
        result == get_result(r, Dict(<<>>))
        out == IF result.raised THEN result
               ELSE IF result.value.t # "dict"
               THEN Raise("AttributeError",
                          <<"n","o"," ","a","t","t","r","i","b","u","t","e"," ","'","g","e","t","'">>)
               ELSE Return([success |-> TRUE,
                            case_number |-> Get(result.value, "number", None),
                            sys_id |-> Get(result.value, "sys_id", None),
                            state |-> Get(result.value, "state", None),
                            priority |-> Get(result.value, "priority", None),
                            short_description |->
                                Get(result.value, "short_description", None),
                            url |-> nav_url(e, s.case_table, result.value)])
    IN [sent |-> <<Request(s, "POST", table_url(s, s.case_table), <<>>, Dict(updated))>>,
        out |-> except_RequestException(out)]

\* the table's own URL requested, the identifier left out
get_case_of_table(s, case_sys_id, r) ==
    LET result == get_result(r, Dict(<<>>))
        out == IF result.raised THEN result
               ELSE Return([success |-> TRUE, case |-> result.value])
    IN [sent |-> <<Request(s, "GET", table_url(s, s.case_table), <<>>, None)>>,
        out |-> except_RequestException(out)]

get_case(s, case_sys_id, r) ==
    LET result == get_result(r, Dict(<<>>))
        out == IF result.raised THEN result
               ELSE Return([success |-> TRUE, case |-> result.value])
    IN [sent |-> <<Request(s, "GET",
                           table_url(s, s.case_table) \o <<"/">> \o Format(case_sys_id),
                           <<>>, None)>>,
        out |-> except_RequestException(out)]

\* the last record in place of the first
last_of(results) ==
    IF results.t = "list" THEN Return(results.v[Len(results.v)])
    ELSE Raise("KeyError", <<"0">>)

\* results[0] after `if results:` held: a non-empty dict has no key 0
first_of(results) ==
    IF results.t = "list" THEN Return(results.v[1])
    ELSE Raise("KeyError", <<"0">>)

get_case_by_number(s, case_number, r) ==
    LET params == [sysparm_query |-> Str(<<"n","u","m","b","e","r","=">> \o Format(case_number)),
                   sysparm_limit |-> 1]
        results == get_result(r, List(<<>>))
        out == IF results.raised THEN results
               ELSE IF Truthy(results.value)
               THEN LET first == first_of(results.value) IN
                    IF first.raised THEN first
                    ELSE Return([success |-> TRUE, case |-> first.value])
               ELSE Return([success |-> FALSE,
                            error |-> Str(<<"C","a","s","e"," ">> \o Format(case_number)
                                          \o <<" ","n","o","t"," ","f","o","u","n","d">>)])
    IN [sent |-> <<Request(s, "GET", table_url(s, s.case_table), params, None)>>,
        out |-> except_RequestException(out)]

update_case(s, case_sys_id, updates, r) ==
    LET result == get_result(r, Dict(<<>>))
        out == IF result.raised THEN result
               ELSE Return([success |-> TRUE, case |-> result.value])
    IN [sent |-> <<Request(s, "PATCH",
                           table_url(s, s.case_table) \o <<"/">> \o Format(case_sys_id),
                           <<>>, updates)>>,
        out |-> except_RequestException(out)]

\* the order_by without its leading "^"
ascending(order_by) ==
    IF order_by.t = "str" /\ order_by.v # <<>> /\ Head(order_by.v) = "^"
    THEN Str(Tail(order_by.v)) ELSE order_by

\* the params with the ordering normalised to ascending
list_params_ascending(query, limit, offset, order_by, fields) ==
    ("sysparm_limit" :> limit) @@ ("sysparm_offset" :> offset)
    @@ IfSet("sysparm_query", query)
    @@ IfSet("sysparm_orderby", ascending(order_by))
    @@ (IF Truthy(fields) THEN "sysparm_fields" :> Str(join(<<",">>, fields.v))
        ELSE <<>>)

\* the params of a list request: limit and offset always, the rest `if` given
list_params(query, limit, offset, order_by, fields) ==
    ("sysparm_limit" :> limit) @@ ("sysparm_offset" :> offset)
    @@ IfSet("sysparm_query", query)
    @@ IfSet("sysparm_orderby", order_by)
    @@ (IF Truthy(fields) THEN "sysparm_fields" :> Str(join(<<",">>, fields.v))
        ELSE <<>>)

\* len(results): None has no len()
len(results) ==
    IF results.t = "None"
    THEN Raise("TypeError", <<"h","a","s"," ","n","o"," ","l","e","n","(",")">>)
    ELSE IF results.t = "dict" THEN Return(Cardinality(Keys(results)))
    ELSE Return(Len(results.v))

query_cases(s, query, limit, offset, order_by, fields, r) ==
    LET params == list_params(query, limit, offset, order_by, fields)
        results == get_result(r, List(<<>>))
        out == IF results.raised THEN results
               ELSE LET n == len(results.value) IN
                    IF n.raised THEN n
                    ELSE Return([success |-> TRUE, count |-> n.value,
                                 cases |-> results.value])
    IN [sent |-> <<Request(s, "GET", table_url(s, s.case_table), params, None)>>,
        out |-> except_RequestException(out)]

get_open_cases(s, limit, r) ==
    query_cases(s, Str(<<"s","t","a","t","e","!","=","3","^","s","t","a","t","e","!","=","4">>),
                limit, 0, Str(<<"^","s","y","s","_","u","p","d","a","t","e","d","_","o","n">>),
                None, r)

get_high_priority_cases(s, limit, r) ==
    query_cases(s, Str(<<"p","r","i","o","r","i","t","y","=","1","^","O","R",
                         "p","r","i","o","r","i","t","y","=","2","^",
                         "s","t","a","t","e","!","=","3","^","s","t","a","t","e","!","=","4">>),
                limit, 0, Str(<<"p","r","i","o","r","i","t","y">>), None, r)

\* {comment_type: comment}: comment_type is the key as given
add_case_comment(s, case_sys_id, comment, comment_type, r) ==
    try_except_Exception(update_case(s, case_sys_id, Dict(comment_type :> comment), r))

now_script == Str(<<"j","a","v","a","s","c","r","i","p","t",":","g","s",".",
                    "n","o","w","D","a","t","e","T","i","m","e","(",")">>)

close_case(s, case_sys_id, resolution_notes, close_code, r) ==
    LET updates == [state |-> Str(<<"3">>), resolved_at |-> now_script]
                   @@ IfSet("resolution_notes", resolution_notes)
                   @@ IfSet("close_code", close_code)
    IN try_except_Exception(update_case(s, case_sys_id, Dict(updates), r))

\* the clauses in the reverse of the given order
like_clauses_reversed(search_text, search_fields) ==
    [i \in 1..Len(search_fields) |->
        search_fields[Len(search_fields) + 1 - i] \o <<"L","I","K","E">>
        \o Format(search_text)]

\* [f"{field}LIKE{search_text}" for field in search_fields], "^OR"-joined
like_clauses(search_text, search_fields) ==
    [i \in 1..Len(search_fields) |->
        search_fields[i] \o <<"L","I","K","E">> \o Format(search_text)]

text_query(search_text, search_fields) ==
    LET fields == IF ~Truthy(search_fields)
                  THEN << <<"s","h","o","r","t","_","d","e","s","c","r","i","p","t","i","o","n">>,
                          <<"d","e","s","c","r","i","p","t","i","o","n">> >>
                  ELSE search_fields.v
    IN Str(join(<<"^","O","R">>, like_clauses(search_text, fields)))

search_cases_by_text(s, search_text, search_fields, limit, r) ==
    try_except_Exception(
        query_cases(s, text_query(search_text, search_fields), limit, 0,
                    Str(<<"^","s","y","s","_","u","p","d","a","t","e","d","_","o","n">>),
                    None, r))

get_cases_by_contact(s, contact_sys_id, limit, r) ==
    query_cases(s, Str(<<"c","o","n","t","a","c","t","=">> \o Format(contact_sys_id)),
                limit, 0, Str(<<"^","s","y","s","_","c","r","e","a","t","e","d","_","o","n">>),
                None, r)

get_cases_by_account(s, account_sys_id, limit, r) ==
    query_cases(s, Str(<<"a","c","c","o","u","n","t","=">> \o Format(account_sys_id)),
                limit, 0, Str(<<"^","s","y","s","_","c","r","e","a","t","e","d","_","o","n">>),
                None, r)

assign_case(s, case_sys_id, assigned_to, assignment_group, r) ==
    LET updates == [assigned_to |-> assigned_to]
                   @@ IfSet("assignment_group", assignment_group)
    IN try_except_Exception(update_case(s, case_sys_id, Dict(updates), r))

---------------------------------------------------------------------------
(* The facade: incident operations, on the table 'incident' whatever       *)
(* case_table is.                                                          *)

create_incident(e, s, short_description, description, priority, urgency, impact, caller_id, assignment_group, category, subcategory, additional_fields, r) ==
    LET payload == ("short_description" :> short_description)
                   @@ ("priority" :> priority)
                   @@ ("urgency" :> urgency)
                   @@ ("impact" :> impact)
                   @@ IfSet("description", description)
                   @@ IfSet("caller_id", caller_id)
                   @@ IfSet("assignment_group", assignment_group)
                   @@ IfSet("category", category)
                   @@ IfSet("subcategory", subcategory)
        updated == IF Truthy(additional_fields)
                   THEN additional_fields.v @@ payload ELSE payload
        result == get_result(r, Dict(<<>>))
        out == IF result.raised THEN result
               ELSE IF result.value.t # "dict"
               THEN Raise("AttributeError",
                          <<"n","o"," ","a","t","t","r","i","b","u","t","e"," ","'","g","e","t","'">>)
               ELSE Return([success |-> TRUE,
                            incident_number |-> Get(result.value, "number", None),
                            sys_id |-> Get(result.value, "sys_id", None),
                            state |-> Get(result.value, "state", None),
                            priority |-> Get(result.value, "priority", None),
                            urgency |-> Get(result.value, "urgency", None),
                            impact |-> Get(result.value, "impact", None),
                            short_description |->
                                Get(result.value, "short_description", None),
                            url |-> nav_url(e, incident_table, result.value)])
    IN [sent |-> <<Request(s, "POST", table_url(s, incident_table), <<>>, Dict(updated))>>,
        out |-> except_RequestException(out)]

get_incident(s, incident_sys_id, r) ==
    LET result == get_result(r, Dict(<<>>))
        out == IF result.raised THEN result
               ELSE Return([success |-> TRUE, incident |-> result.value])
    IN [sent |-> <<Request(s, "GET",
                           table_url(s, incident_table) \o <<"/">> \o Format(incident_sys_id),
                           <<>>, None)>>,
        out |-> except_RequestException(out)]

get_incident_by_number(s, incident_number, r) ==
    LET params == [sysparm_query |-> Str(<<"n","u","m","b","e","r","=">>
                                         \o Format(incident_number)),
                   sysparm_limit |-> 1]
        results == get_result(r, List(<<>>))
        out == IF results.raised THEN results
               ELSE IF Truthy(results.value)
               THEN LET first == first_of(results.value) IN
                    IF first.raised THEN first
                    ELSE Return([success |-> TRUE, incident |-> first.value])
               ELSE Return([success |-> FALSE,
                            error |-> Str(<<"I","n","c","i","d","e","n","t"," ">>
                                          \o Format(incident_number)
                                          \o <<" ","n","o","t"," ","f","o","u","n","d">>)])
    IN [sent |-> <<Request(s, "GET", table_url(s, incident_table), params, None)>>,
        out |-> except_RequestException(out)]

\* more than a full page
has_more_above(count, limit) == count > limit

\* a full page or more
has_more_at_least(count, limit) == count >= limit

\* has_more for a page that came short of the limit
has_more_short_page(count, limit) == count < limit

\* has_more = (count == limit)
has_more(count, limit) == count = limit

query_incidents(s, query, limit, offset, order_by, fields, r) ==
    LET params == list_params(query, limit, offset, order_by, fields)
                  @@ ("sysparm_display_value" :> Str(<<"f","a","l","s","e">>))
        results == get_result(r, List(<<>>))
        out == IF results.raised THEN results
               ELSE LET count == len(results.value) IN
                    IF count.raised THEN count
                    ELSE Return([success |-> TRUE, count |-> count.value,
                                 offset |-> offset, limit |-> limit,
                                 has_more |-> has_more(count.value, limit),
                                 incidents |-> results.value])
    IN [sent |-> <<Request(s, "GET", table_url(s, incident_table), params, None)>>,
        out |-> except_RequestException(out)]

\* the offset dropped: always the first page
get_open_incidents_first_page(s, limit, offset, r) ==
    query_incidents(s, Str(<<"s","t","a","t","e","!","=","6","^","s","t","a","t","e","!","=","7">>), limit, 0,
                    Str(<<"^","s","y","s","_","u","p","d","a","t","e","d","_","o","n">>), None, r)

get_open_incidents(s, limit, offset, r) ==
    query_incidents(s, Str(<<"s","t","a","t","e","!","=","6","^","s","t","a","t","e","!","=","7">>),
                    limit, offset,
                    Str(<<"^","s","y","s","_","u","p","d","a","t","e","d","_","o","n">>),
                    None, r)

get_high_priority_incidents(s, limit, offset, r) ==
    query_incidents(s, Str(<<"p","r","i","o","r","i","t","y","=","1","^","O","R",
                             "p","r","i","o","r","i","t","y","=","2","^",
                             "s","t","a","t","e","!","=","6","^","s","t","a","t","e","!","=","7">>),
                    limit, offset, Str(<<"p","r","i","o","r","i","t","y">>), None, r)

\* the request sent once more when the first attempt failed
update_incident_retry(s, incident_sys_id, updates, r) ==
    LET result == get_result(r, Dict(<<>>))
        out == IF result.raised THEN result
               ELSE Return([success |-> TRUE, incident |-> result.value])
        request == Request(s, "PATCH",
                           table_url(s, incident_table) \o <<"/">>
                           \o Format(incident_sys_id), <<>>, updates)
    IN [sent |-> IF result.raised THEN <<request, request>> ELSE <<request>>,
        out |-> except_RequestException(out)]

update_incident(s, incident_sys_id, updates, r) ==
    LET result == get_result(r, Dict(<<>>))
        out == IF result.raised THEN result
               ELSE Return([success |-> TRUE, incident |-> result.value])
    IN [sent |-> <<Request(s, "PATCH",
                           table_url(s, incident_table) \o <<"/">> \o Format(incident_sys_id),
                           <<>>, updates)>>,
        out |-> except_RequestException(out)]

add_incident_comment(s, incident_sys_id, comment, comment_type, r) ==
    try_except_Exception(
        update_incident(s, incident_sys_id, Dict(comment_type :> comment), r))

resolve_incident(s, incident_sys_id, resolution_notes, resolution_code, r) ==
    LET updates == [state |-> Str(<<"6">>), resolved_at |-> now_script]
                   @@ IfSet("resolution_notes", resolution_notes)
                   @@ IfSet("resolution_code", resolution_code)
    IN try_except_Exception(update_incident(s, incident_sys_id, Dict(updates), r))

close_incident(s, incident_sys_id, close_notes, close_code, r) ==
    LET updates == [state |-> Str(<<"7">>), closed_at |-> now_script]
                   @@ IfSet("close_notes", close_notes)
                   @@ IfSet("close_code", close_code)
    IN try_except_Exception(update_incident(s, incident_sys_id, Dict(updates), r))

\* the group set whether it was supplied or not
assign_incident_always_group(s, incident_sys_id, assigned_to, assignment_group, r) ==
    LET updates == [assigned_to |-> assigned_to, assignment_group |-> assignment_group]
    IN try_except_Exception(update_incident(s, incident_sys_id, Dict(updates), r))

assign_incident(s, incident_sys_id, assigned_to, assignment_group, r) ==
    LET updates == [assigned_to |-> assigned_to]
                   @@ IfSet("assignment_group", assignment_group)
    IN try_except_Exception(update_incident(s, incident_sys_id, Dict(updates), r))

search_incidents_by_text(s, search_text, search_fields, limit, offset, r) ==
    try_except_Exception(
        query_incidents(s, text_query(search_text, search_fields), limit, offset,
                        Str(<<"^","s","y","s","_","u","p","d","a","t","e","d","_","o","n">>),
                        None, r))

get_incidents_by_caller(s, caller_id, limit, r) ==
    query_incidents(s, Str(<<"c","a","l","l","e","r","_","i","d","=">> \o Format(caller_id)),
                    limit, 0,
                    Str(<<"^","s","y","s","_","c","r","e","a","t","e","d","_","o","n">>),
                    None, r)

get_incidents_by_assignment_group(s, assignment_group, limit, r) ==
    query_incidents(s, Str(<<"a","s","s","i","g","n","m","e","n","t","_","g","r","o","u","p","=">>
                           \o Format(assignment_group)),
                    limit, 0,
                    Str(<<"^","s","y","s","_","c","r","e","a","t","e","d","_","o","n">>),
                    None, r)

---------------------------------------------------------------------------
(* Inputs: the arguments the callers pass and the answers a server gives   *)

MaxRecords == 2
MaxLimit == 2
MaxOffset == 1
MaxTextLen == 2

\* the strings over a set of characters, up to a length
RECURSIVE StringsUpTo(_, _)
StringsUpTo(chars, n) ==
    IF n = 0 THEN {<<>>}
    ELSE LET shorter == StringsUpTo(chars, n - 1)
         IN shorter \cup {Append(t, c) : t \in shorter, c \in chars}

login_failure == <<"l","o","g","i","n"," ","f","a","i","l","u","r","e">>

\* search texts: with and without the delimiter character of the grammar
SearchTexts == {Str(t) : t \in StringsUpTo({"a", "^"}, MaxTextLen) \cup {login_failure}}

short_description == <<"s","h","o","r","t","_","d","e","s","c","r","i","p","t","i","o","n">>
description == <<"d","e","s","c","r","i","p","t","i","o","n">>

FieldLists == {None, List(<<>>), List(<<short_description, description>>),
               List(<<description>>), List(<<description, <<"n","u","m","b","e","r">> >>)}

OptText == {None, Str(<<>>), Str(<<"x">>)}
Opt == {None, Str(<<"x">>)}
SysIds == {Str(<<"i","d","1">>), Str(<<"i","d","9">>)}
Numbers == {Str(<<"I","N","C","1">>), Str(<<"I","N","C","9">>)}
Limits == 0..MaxLimit
Offsets == 0..MaxOffset
Queries == {None, Str(<<>>), Str(<<"p","r","i","o","r","i","t","y","<","=","2">>)}
OrderBys == {None, Str(<<>>), Str(<<"^","s","y","s","_","u","p","d","a","t","e","d","_","o","n">>)}
Updates == {Dict(<<>>), Dict([state |-> Str(<<"2">>)])}

record1 == Dict([number |-> Str(<<"I","N","C","1">>), sys_id |-> Str(<<"i","d","1">>),
                 short_description |-> Str(<<"d","i","s","k">>),
                 state |-> Str(<<"1">>), priority |-> Str(<<"2">>)])
record2 == Dict([number |-> Str(<<"I","N","C","2">>), sys_id |-> Str(<<"i","d","2">>)])

\* the list of the first n records a server returns
Records(n) == List([i \in 1..n |-> IF i % 2 = 1 THEN record1 ELSE record2])

\* the JSON bodies of a 2xx answer: not JSON, an array, an object without
\* 'result', with a null one, with one record, with a list of records
Bodies ==
    {[t |-> "invalid", v |-> <<>>], List(<<>>), Dict(<<>>), Dict([result |-> None]),
     Dict([result |-> Dict(<<>>)]), Dict([result |-> record1])}
    \cup {Dict([result |-> Records(n)]) : n \in 0..MaxRecords}

Responses ==
    {[kind |-> "Timeout", status |-> 0, body |-> None,
      msg |-> <<"t","i","m","e","d"," ","o","u","t">>],
     [kind |-> "ConnectionError", status |-> 0, body |-> None,
      msg |-> <<"r","e","f","u","s","e","d">>],
     [kind |-> "response", status |-> 404, body |-> None,
      msg |-> <<"4","0","4"," ","C","l","i","e","n","t"," ","E","r","r","o","r">>],
     [kind |-> "response", status |-> 500, body |-> None,
      msg |-> <<"5","0","0"," ","S","e","r","v","e","r"," ","E","r","r","o","r">>]}
    \cup {[kind |-> "response", status |-> 200, body |-> b, msg |-> <<>>] : b \in Bodies}

---------------------------------------------------------------------------
(* The state machine.  env is the module's configuration, self the shared  *)
(* facade instance; pc is the caller's position; op, args, resp, called,   *)
(* sent and ret record the invocation in progress: what was invoked with   *)
(* what, what the server answered, the facade operations the caller        *)
(* entered, the HTTP requests issued and the outcome.  store is the        *)
(* records the external system holds, in the order it was given them;      *)
(* created_sys_id is the identifier a caller keeps of the record it        *)
(* created (case_sys_id in run_all_tests of tests/test_servicenow.py) and  *)
(* creation what it created that record with.                             *)

\* the callers that invoke the shared instance at the same time
MaxCallers == 2
Callers == 1..MaxCallers

\* no reader is following the paging guidance
no_traversal == [size |-> 0, page |-> 0, pages |-> <<>>, done |-> TRUE]

\* no chat assistant runs
no_assistant == [chat_history |-> <<>>, running |-> FALSE, user_input |-> <<>>, asked |-> <<>>,
                 turns |-> 0]

\* a caller with no invocation in flight
no_call == [pc |-> "idle", op |-> "none", args |-> <<>>, sent |-> <<>>, resp |-> None,
            ret |-> None]

Init ==
    /\ env \in Envs
    /\ self = init(env, incident_table)
    /\ pc = "idle"
    /\ op = "none"
    /\ args = <<>>
    /\ called = <<>>
    /\ sent = <<>>
    /\ resp = None
    /\ ret = None
    /\ store = <<>>
    /\ created_sys_id = None
    /\ creation = None
    /\ inflight = [c \in Callers |-> no_call]
    /\ traversal = no_traversal
    /\ assistant = no_assistant

\* an invocation of a facade operation runs to its outcome
Invoke(name, a, r, call) ==
    /\ pc' = "returned"
    /\ op' = name
    /\ args' = a
    /\ resp' = r
    /\ called' = <<[op |-> name, args |-> a]>>
    /\ sent' = call.sent
    /\ ret' = call.out
    /\ UNCHANGED <<assistant, traversal, inflight, env, self, store, created_sys_id, creation>>

\* the caller takes the outcome and is ready for its next invocation
Continue ==
    /\ pc = "returned"
    /\ pc' = "idle"
    /\ op' = "none"
    /\ args' = <<>>
    /\ called' = <<>>
    /\ sent' = <<>>
    /\ resp' = None
    /\ ret' = None
    /\ UNCHANGED <<assistant, traversal, inflight, env, self, store, created_sys_id, creation>>

CreateCase ==
    /\ pc = "idle"
    /\ \E d \in OptText, p \in {Str(<<"3">>), Str(<<"1">>)}, c \in Opt, a \in Opt,
          g \in Opt, f \in {None, Dict([state |-> Str(<<"2">>)])}, r \in Responses :
           Invoke("create_case",
                  [short_description |-> Str(<<"d","i","s","k">>), description |-> d,
                   priority |-> p, contact |-> c, account |-> a, category |-> g,
                   additional_fields |-> f], r,
                  create_case(env, self, Str(<<"d","i","s","k">>), d, p, c, a, g, f, r))

GetCase ==
    /\ pc = "idle"
    /\ \E id \in SysIds, r \in Responses :
           Invoke("get_case", [case_sys_id |-> id], r, get_case(self, id, r))

GetCaseByNumber ==
    /\ pc = "idle"
    /\ \E n \in Numbers, r \in Responses :
           Invoke("get_case_by_number", [case_number |-> n], r,
                  get_case_by_number(self, n, r))

UpdateCase ==
    /\ pc = "idle"
    /\ \E id \in SysIds, u \in Updates, r \in Responses :
           Invoke("update_case", [case_sys_id |-> id, updates |-> u], r,
                  update_case(self, id, u, r))

QueryCases ==
    /\ pc = "idle"
    /\ \E q \in Queries, l \in Limits, o \in Offsets, ob \in OrderBys,
          f \in {None, List(<<>>), List(<< <<"n","u","m","b","e","r">>, <<"s","t","a","t","e">> >>)},
          r \in Responses :
           Invoke("query_cases",
                  [query |-> q, limit |-> l, offset |-> o, order_by |-> ob, fields |-> f], r,
                  query_cases(self, q, l, o, ob, f, r))

GetOpenCases ==
    /\ pc = "idle"
    /\ \E l \in Limits, r \in Responses :
           Invoke("get_open_cases", [limit |-> l], r, get_open_cases(self, l, r))

GetHighPriorityCases ==
    /\ pc = "idle"
    /\ \E l \in Limits, r \in Responses :
           Invoke("get_high_priority_cases", [limit |-> l], r,
                  get_high_priority_cases(self, l, r))

AddCaseComment ==
    /\ pc = "idle"
    /\ \E id \in SysIds, c \in {Str(<<"x">>)}, ct \in {"work_notes", "comments"},
          r \in Responses :
           Invoke("add_case_comment",
                  [case_sys_id |-> id, comment |-> c, comment_type |-> ct], r,
                  add_case_comment(self, id, c, ct, r))

CloseCase ==
    /\ pc = "idle"
    /\ \E id \in SysIds, n \in OptText, c \in OptText, r \in Responses :
           Invoke("close_case",
                  [case_sys_id |-> id, resolution_notes |-> n, close_code |-> c], r,
                  close_case(self, id, n, c, r))

SearchCasesByText ==
    /\ pc = "idle"
    /\ \E t \in SearchTexts, f \in FieldLists, l \in Limits, r \in Responses :
           Invoke("search_cases_by_text",
                  [search_text |-> t, search_fields |-> f, limit |-> l], r,
                  search_cases_by_text(self, t, f, l, r))

GetCasesByContact ==
    /\ pc = "idle"
    /\ \E c \in SysIds \cup {Str(<<"a","^","b">>)}, l \in Limits, r \in Responses :
           Invoke("get_cases_by_contact", [contact_sys_id |-> c, limit |-> l], r,
                  get_cases_by_contact(self, c, l, r))

GetCasesByAccount ==
    /\ pc = "idle"
    /\ \E a \in SysIds \cup {Str(<<"a","^","b">>)}, l \in Limits, r \in Responses :
           Invoke("get_cases_by_account", [account_sys_id |-> a, limit |-> l], r,
                  get_cases_by_account(self, a, l, r))

AssignCase ==
    /\ pc = "idle"
    /\ \E id \in SysIds, u \in {Str(<<"u","1">>)}, g \in OptText, r \in Responses :
           Invoke("assign_case",
                  [case_sys_id |-> id, assigned_to |-> u, assignment_group |-> g], r,
                  assign_case(self, id, u, g, r))

CreateIncident ==
    /\ pc = "idle"
    /\ \E d \in OptText, p \in {Str(<<"3">>), Str(<<"1">>)}, c \in Opt, g \in Opt,
          cat \in Opt, sub \in Opt, f \in {None, Dict([state |-> Str(<<"2">>)])},
          r \in Responses :
           Invoke("create_incident",
                  [short_description |-> Str(<<"d","i","s","k">>), description |-> d,
                   priority |-> p, urgency |-> Str(<<"3">>), impact |-> Str(<<"3">>),
                   caller_id |-> c, assignment_group |-> g, category |-> cat,
                   subcategory |-> sub, additional_fields |-> f], r,
                  create_incident(env, self, Str(<<"d","i","s","k">>), d, p, Str(<<"3">>),
                                  Str(<<"3">>), c, g, cat, sub, f, r))

GetIncident ==
    /\ pc = "idle"
    /\ \E id \in SysIds, r \in Responses :
           Invoke("get_incident", [incident_sys_id |-> id], r, get_incident(self, id, r))

GetIncidentByNumber ==
    /\ pc = "idle"
    /\ \E n \in Numbers, r \in Responses :
           Invoke("get_incident_by_number", [incident_number |-> n], r,
                  get_incident_by_number(self, n, r))

QueryIncidents ==
    /\ pc = "idle"
    /\ \E q \in Queries, l \in Limits, o \in Offsets, ob \in OrderBys,
          f \in {None, List(<<>>), List(<< <<"n","u","m","b","e","r">>, <<"s","t","a","t","e">> >>)},
          r \in Responses :
           Invoke("query_incidents",
                  [query |-> q, limit |-> l, offset |-> o, order_by |-> ob, fields |-> f], r,
                  query_incidents(self, q, l, o, ob, f, r))

GetOpenIncidents ==
    /\ pc = "idle"
    /\ \E l \in Limits, o \in Offsets, r \in Responses :
           Invoke("get_open_incidents", [limit |-> l, offset |-> o], r,
                  get_open_incidents(self, l, o, r))

GetHighPriorityIncidents ==
    /\ pc = "idle"
    /\ \E l \in Limits, o \in Offsets, r \in Responses :
           Invoke("get_high_priority_incidents", [limit |-> l, offset |-> o], r,
                  get_high_priority_incidents(self, l, o, r))

UpdateIncident ==
    /\ pc = "idle"
    /\ \E id \in SysIds, u \in Updates, r \in Responses :
           Invoke("update_incident", [incident_sys_id |-> id, updates |-> u], r,
                  update_incident(self, id, u, r))

AddIncidentComment ==
    /\ pc = "idle"
    /\ \E id \in SysIds, c \in {Str(<<"x">>)}, ct \in {"work_notes", "comments"},
          r \in Responses :
           Invoke("add_incident_comment",
                  [incident_sys_id |-> id, comment |-> c, comment_type |-> ct], r,
                  add_incident_comment(self, id, c, ct, r))

ResolveIncident ==
    /\ pc = "idle"
    /\ \E id \in SysIds, n \in OptText, c \in OptText, r \in Responses :
           Invoke("resolve_incident",
                  [incident_sys_id |-> id, resolution_notes |-> n, resolution_code |-> c], r,
                  resolve_incident(self, id, n, c, r))

CloseIncident ==
    /\ pc = "idle"
    /\ \E id \in SysIds, n \in OptText, c \in OptText, r \in Responses :
           Invoke("close_incident",
                  [incident_sys_id |-> id, close_notes |-> n, close_code |-> c], r,
                  close_incident(self, id, n, c, r))

AssignIncident ==
    /\ pc = "idle"
    /\ \E id \in SysIds, u \in {Str(<<"u","1">>)}, g \in OptText, r \in Responses :
           Invoke("assign_incident",
                  [incident_sys_id |-> id, assigned_to |-> u, assignment_group |-> g], r,
                  assign_incident(self, id, u, g, r))

SearchIncidentsByText ==
    /\ pc = "idle"
    /\ \E t \in SearchTexts, f \in FieldLists, l \in Limits, o \in Offsets, r \in Responses :
           Invoke("search_incidents_by_text",
                  [search_text |-> t, search_fields |-> f, limit |-> l, offset |-> o], r,
                  search_incidents_by_text(self, t, f, l, o, r))

GetIncidentsByCaller ==
    /\ pc = "idle"
    /\ \E c \in SysIds \cup {Str(<<"a","^","b">>)}, l \in Limits, r \in Responses :
           Invoke("get_incidents_by_caller", [caller_id |-> c, limit |-> l], r,
                  get_incidents_by_caller(self, c, l, r))

GetIncidentsByAssignmentGroup ==
    /\ pc = "idle"
    /\ \E g \in SysIds \cup {Str(<<"a","^","b">>)}, l \in Limits, r \in Responses :
           Invoke("get_incidents_by_assignment_group", [assignment_group |-> g, limit |-> l], r,
                  get_incidents_by_assignment_group(self, g, l, r))

Next ==
    \/ CreateCase \/ GetCase \/ GetCaseByNumber \/ UpdateCase \/ QueryCases
    \/ GetOpenCases \/ GetHighPriorityCases \/ AddCaseComment \/ CloseCase
    \/ SearchCasesByText \/ GetCasesByContact \/ GetCasesByAccount \/ AssignCase
    \/ CreateIncident \/ GetIncident \/ GetIncidentByNumber \/ QueryIncidents
    \/ GetOpenIncidents \/ GetHighPriorityIncidents \/ UpdateIncident
    \/ AddIncidentComment \/ ResolveIncident \/ CloseIncident \/ AssignIncident
    \/ SearchIncidentsByText \/ GetIncidentsByCaller \/ GetIncidentsByAssignmentGroup
    \/ Continue

Spec == Init /\ [][Next]_vars

---------------------------------------------------------------------------
(* The adapter: the paged functions of ServiceNowPlugin, which take text   *)
(* and return text.  They call the module-level facade instance.           *)

\* the characters int() reads as digits, with their values
digit == [c \in {"0","1","2","3","4","5","6","7","8","9"} |->
            CASE c = "0" -> 0 [] c = "1" -> 1 [] c = "2" -> 2 [] c = "3" -> 3
              [] c = "4" -> 4 [] c = "5" -> 5 [] c = "6" -> 6 [] c = "7" -> 7
              [] c = "8" -> 8 [] c = "9" -> 9]

RECURSIVE strip(_)
strip(t) ==
    IF t = <<>> THEN t
    ELSE IF Head(t) = " " THEN strip(Tail(t))
    ELSE IF t[Len(t)] = " " THEN strip(SubSeq(t, 1, Len(t) - 1))
    ELSE t

\* the value of a run of digits, single underscores allowed between digits;
\* -1 when it is not one
RECURSIVE digits_value(_, _)
digits_value(t, acc) ==
    IF t = <<>> THEN acc
    ELSE IF Head(t) \in DOMAIN digit
         THEN digits_value(Tail(t), 10 * acc + digit[Head(t)])
    ELSE IF Head(t) = "_" /\ Len(t) > 1 /\ t[2] \in DOMAIN digit
         THEN digits_value(Tail(t), acc)
    ELSE -1

\* a text that is no integer read as 0
int_lenient(text) ==
    LET t == strip(text.v)
        signed == t # <<>> /\ Head(t) \in {"+", "-"}
        body == IF signed THEN Tail(t) ELSE t
        n == IF body = <<>> \/ Head(body) \notin DOMAIN digit THEN -1
             ELSE digits_value(body, 0)
    IN IF n < 0 THEN Return(0)
       ELSE Return(IF signed /\ Head(t) = "-" THEN 0 - n ELSE n)

\* int(text): surrounding blanks, an optional sign, digits; else ValueError
int(text) ==
    LET t == strip(text.v)
        signed == t # <<>> /\ Head(t) \in {"+", "-"}
        body == IF signed THEN Tail(t) ELSE t
        n == IF body = <<>> \/ Head(body) \notin DOMAIN digit THEN -1
             ELSE digits_value(body, 0)
    IN IF n < 0
       THEN Raise("ValueError",
                  <<"i","n","v","a","l","i","d"," ","l","i","t","e","r","a","l"," ","f","o","r"," ","i","n","t","(",")"," ","w","i","t","h"," ","b","a","s","e"," ","1","0",":"," ","'">> \o text.v \o <<"'">>)
       ELSE Return(IF signed /\ Head(t) = "-" THEN 0 - n ELSE n)

\* str(n) of an int
RECURSIVE decimal(_)
decimal(n) ==
    IF n < 0 THEN <<"-">> \o decimal(0 - n)
    ELSE IF n < 10 THEN <<CHOOSE c \in DOMAIN digit : digit[c] = n>>
    ELSE decimal(n \div 10) \o <<CHOOSE c \in DOMAIN digit : digit[c] = n % 10>>

\* incident.get(k) of an element of the list: iterating a dict gives its keys,
\* which are strings and have no .get
entry(incident) ==
    <<"\n","-"," ","I","n","c","i","d","e","n","t"," ">> \o Format(Get(incident, "number", None))
    \o <<":"," ">> \o Format(Get(incident, "short_description", None))
    \o <<"\n"," "," ","P","r","i","o","r","i","t","y",":"," ">> \o Format(Get(incident, "priority", None))
    \o <<","," ","U","r","g","e","n","c","y",":"," ">> \o Format(Get(incident, "urgency", None))
    \o <<","," ","I","m","p","a","c","t",":"," ">> \o Format(Get(incident, "impact", None))
    \o <<","," ","S","t","a","t","e",":"," ">> \o Format(Get(incident, "state", None))

\* the entries with the last incident first
RECURSIVE entries_reversed(_)
entries_reversed(incidents) ==
    IF incidents = <<>> THEN <<>>
    ELSE entries_reversed(Tail(incidents)) \o entry(Head(incidents))

RECURSIVE entries(_)
entries(incidents) ==
    IF incidents = <<>> THEN <<>>
    ELSE entry(Head(incidents)) \o entries(Tail(incidents))

\* the `if result.get("success"):` branch and its else, shared by the three
\* paged functions: the texts differ, the steps do not
render_page(result, page_num, offset, title, none_found, more, failed) ==
    IF result.success
    THEN LET incidents == result.incidents
             count == result.count
         IN IF count = 0 THEN Return(Str(none_found))
            ELSE IF incidents.t # "list"
            THEN Raise("AttributeError", <<"'","s","t","r","'"," ","o","b","j","e","c","t"," ","h","a","s"," ","n","o"," ","a","t","t","r","i","b","u","t","e"," ","'","g","e","t","'">>)
            ELSE Return(Str(
                    title \o <<" ","-"," ","P","a","g","e"," ">> \o decimal(page_num)
                    \o <<" ","(","s","h","o","w","i","n","g"," ">> \o decimal(offset + 1) \o <<"-">>
                    \o decimal(offset + count) \o <<")",":","\n">>
                    \o entries(incidents.v)
                    \o (IF result.has_more
                        THEN more \o <<"p","a","g","e","_","n","u","m","b","e","r","=","'">> \o decimal(page_num + 1)
                             \o <<"'"," ","t","o"," ","c","o","n","t","i","n","u","e",".">>
                        ELSE <<>>)))
    ELSE Return(Str(failed \o Format(result.error)))

\* pages counted from 0
page_offset_from_zero(page_num, page_sz) == page_num * page_sz

\* offset = (page_num - 1) * page_sz
page_offset(page_num, page_sz) == (page_num - 1) * page_sz

\* type(e).__name__ of the exceptions that escape the facade
type_name(type) ==
    CASE type = "AttributeError" -> <<"A","t","t","r","i","b","u","t","e","E","r","r","o","r">>
      [] type = "TypeError" -> <<"T","y","p","e","E","r","r","o","r">>
      [] type = "KeyError" -> <<"K","e","y","E","r","r","o","r">>

\* the body of a paged function: parse, one facade query, render; `invalid`
\* begins the text for a ValueError, `error` for any other exception, which
\* `typed` says is followed by the exception's type name.  The
\* outcome has the facade calls made (called), each with the outcome the
\* facade gave, beside sent and out
paged_query(s, page_number, page_size, query, r, title, none_found, more, failed, invalid, error, typed) ==
    LET page_num == int(page_number)
        page_sz == int(page_size)
    IN IF page_num.raised
       THEN [called |-> <<>>, sent |-> <<>>,
             out |-> Return(Str(invalid \o page_num.exc.msg))]
       ELSE IF page_sz.raised
       THEN [called |-> <<>>, sent |-> <<>>,
             out |-> Return(Str(invalid \o page_sz.exc.msg))]
       ELSE LET offset == page_offset(page_num.value, page_sz.value)
                order_by == Str(<<"^","s","y","s","_","u","p","d","a","t","e","d","_","o","n">>)
                call == query_incidents(s, query, page_sz.value, offset, order_by, None, r)
                text == IF call.out.raised THEN call.out
                        ELSE render_page(call.out.value, page_num.value, offset,
                                         title, none_found, more, failed)
            IN [called |-> <<[op |-> "query_incidents",
                              args |-> [query |-> query, limit |-> page_sz.value,
                                        offset |-> offset, order_by |-> order_by],
                              out |-> call.out]>>,
                sent |-> call.sent,
                out |-> IF text.raised
                        THEN Return(Str(error \o text.exc.msg
                                        \o (IF typed
                                            THEN <<" ","|"," ","T","y","p","e",":"," ">> \o type_name(text.exc.type)
                                            ELSE <<>>)))
                        ELSE text]

query_open_incidents(s, page_number, page_size, r) ==
    paged_query(s, page_number, page_size, Str(<<"s","t","a","t","e","!","=","6","^","s","t","a","t","e","!","=","7">>), r,
        <<"O","p","e","n"," ","I","n","c","i","d","e","n","t","s">>,
        <<"N","o"," ","o","p","e","n"," ","i","n","c","i","d","e","n","t","s"," ","f","o","u","n","d",".">>,
        <<"\n","\n","M","o","r","e"," ","i","n","c","i","d","e","n","t","s"," ","a","v","a","i","l","a","b","l","e","."," ","U","s","e"," ","q","u","e","r","y","_","o","p","e","n","_","i","n","c","i","d","e","n","t","s"," ","w","i","t","h"," ">>,
        <<"F","a","i","l","e","d"," ","t","o"," ","q","u","e","r","y"," ","o","p","e","n"," ","i","n","c","i","d","e","n","t","s",":"," ">>,
        <<"I","n","v","a","l","i","d"," ","p","a","g","e"," ","p","a","r","a","m","e","t","e","r","s"," ","f","o","r"," ","o","p","e","n"," ","i","n","c","i","d","e","n","t","s",":"," ">>,
        <<"E","r","r","o","r"," ","q","u","e","r","y","i","n","g"," ","o","p","e","n"," ","i","n","c","i","d","e","n","t","s"," ","-"," ","D","e","t","a","i","l","s",":"," ">>, TRUE)

query_high_priority_incidents(s, page_number, page_size, r) ==
    paged_query(s, page_number, page_size, Str(<<"p","r","i","o","r","i","t","y","=","1","^","O","R","p","r","i","o","r","i","t","y","=","2">>), r,
        <<"H","i","g","h"," ","P","r","i","o","r","i","t","y"," ","I","n","c","i","d","e","n","t","s">>,
        <<"N","o"," ","h","i","g","h"," ","p","r","i","o","r","i","t","y"," ","i","n","c","i","d","e","n","t","s"," ","f","o","u","n","d",".">>,
        <<"\n","\n","M","o","r","e"," ","h","i","g","h"," ","p","r","i","o","r","i","t","y"," ","i","n","c","i","d","e","n","t","s"," ","a","v","a","i","l","a","b","l","e","."," ","U","s","e"," ","q","u","e","r","y","_","h","i","g","h","_","p","r","i","o","r","i","t","y","_","i","n","c","i","d","e","n","t","s"," ","w","i","t","h"," ">>,
        <<"F","a","i","l","e","d"," ","t","o"," ","q","u","e","r","y"," ","h","i","g","h"," ","p","r","i","o","r","i","t","y"," ","i","n","c","i","d","e","n","t","s",":"," ">>,
        <<"I","n","v","a","l","i","d"," ","p","a","g","e"," ","p","a","r","a","m","e","t","e","r","s"," ","f","o","r"," ","h","i","g","h"," ","p","r","i","o","r","i","t","y"," ","i","n","c","i","d","e","n","t","s",":"," ">>,
        <<"E","r","r","o","r"," ","q","u","e","r","y","i","n","g"," ","h","i","g","h"," ","p","r","i","o","r","i","t","y"," ","i","n","c","i","d","e","n","t","s"," ","-"," ","D","e","t","a","i","l","s",":"," ">>, TRUE)

search_incidents(s, search_text, page_number, page_size, r) ==
    paged_query(s, page_number, page_size,
        Str(<<"s","h","o","r","t","_","d","e","s","c","r","i","p","t","i","o","n","L","I","K","E">> \o Format(search_text)
            \o <<"^","O","R","d","e","s","c","r","i","p","t","i","o","n","L","I","K","E">> \o Format(search_text)), r,
        <<"S","e","a","r","c","h"," ","R","e","s","u","l","t","s"," ","f","o","r"," ","'">> \o Format(search_text) \o <<"'">>,
        <<"N","o"," ","i","n","c","i","d","e","n","t","s"," ","f","o","u","n","d"," ","m","a","t","c","h","i","n","g"," ","'">> \o Format(search_text) \o <<"'",".">>,
        <<"\n","\n","M","o","r","e"," ","r","e","s","u","l","t","s"," ","a","v","a","i","l","a","b","l","e","."," ","U","s","e"," ","s","e","a","r","c","h","_","i","n","c","i","d","e","n","t","s"," ","w","i","t","h"," ","s","e","a","r","c","h","_","t","e","x","t","=","'">>
            \o Format(search_text) \o <<"'"," ","a","n","d"," ">>,
        <<"F","a","i","l","e","d"," ","t","o"," ","s","e","a","r","c","h"," ","i","n","c","i","d","e","n","t","s",":"," ">>,
        <<"I","n","v","a","l","i","d"," ","p","a","g","e"," ","p","a","r","a","m","e","t","e","r","s"," ","f","o","r"," ","s","e","a","r","c","h",":"," ">>,
        <<"E","r","r","o","r"," ","s","e","a","r","c","h","i","n","g"," ","i","n","c","i","d","e","n","t","s",":"," ">>, FALSE)

---------------------------------------------------------------------------
(* The adapter's state machine: the kernel invokes a function with text.   *)

\* page_number and page_size texts: integers in the forms int() reads, and
\* texts that are none
PageTexts ==
    {Str(t) : t \in {<<"1">>, <<"2">>, <<"3">>, <<"0">>, <<"-","1">>, <<"+","1">>, <<" ","2">>,
                     <<>>, <<"x">>, <<"2","x">>}}

PluginSearchTexts == {Str(login_failure), Str(<<"a">>), Str(<<"^">>)}

\* an invocation of an adapter function runs to the text it returns
InvokePlugin(name, a, r, call) ==
    /\ pc' = "returned"
    /\ op' = name
    /\ args' = a
    /\ resp' = r
    /\ called' = call.called
    /\ sent' = call.sent
    /\ ret' = call.out
    /\ UNCHANGED <<assistant, traversal, inflight, env, self, store, created_sys_id, creation>>

QueryOpenIncidents ==
    /\ pc = "idle"
    /\ \E n \in PageTexts, z \in PageTexts, r \in Responses :
           InvokePlugin("plugin.query_open_incidents",
                        [page_number |-> n, page_size |-> z], r,
                        query_open_incidents(self, n, z, r))

QueryHighPriorityIncidents ==
    /\ pc = "idle"
    /\ \E n \in PageTexts, z \in PageTexts, r \in Responses :
           InvokePlugin("plugin.query_high_priority_incidents",
                        [page_number |-> n, page_size |-> z], r,
                        query_high_priority_incidents(self, n, z, r))

SearchIncidents ==
    /\ pc = "idle"
    /\ \E t \in PluginSearchTexts, n \in PageTexts, z \in PageTexts, r \in Responses :
           InvokePlugin("plugin.search_incidents",
                        [search_text |-> t, page_number |-> n, page_size |-> z], r,
                        search_incidents(self, t, n, z, r))

PluginNext ==
    \/ QueryOpenIncidents \/ QueryHighPriorityIncidents \/ SearchIncidents
    \/ Continue

PluginSpec == Init /\ [][PluginNext]_vars

\* the text search of both layers
SearchNext ==
    \/ SearchCasesByText \/ SearchIncidentsByText \/ SearchIncidents
    \/ Continue

SearchSpec == Init /\ [][SearchNext]_vars

---------------------------------------------------------------------------
(* Properties.  What the formulas below read of an invocation.             *)

\* a sequence of characters as one string
RECURSIVE Text(_)
Text(s) ==
    IF s = <<>> THEN ""
    ELSE IF Len(s) = 1 THEN s[1]
    ELSE Text(SubSeq(s, 1, Len(s) \div 2)) \o Text(SubSeq(s, Len(s) \div 2 + 1, Len(s)))

Returned == pc = "returned"

\* the invocation returned a success envelope
Succeeded == Returned /\ ~ret.raised /\ ret.value.success

\* the invocation returned {success: false, error: <message>} and nothing else
FailureEnvelope ==
    /\ Returned /\ ~ret.raised
    /\ DOMAIN ret.value = {"success", "error"}
    /\ ~ret.value.success
    /\ ret.value.error.t = "str"

\* the server answered 2xx with a JSON object
AnsweredObject == resp.kind = "response" /\ resp.status = 200 /\ resp.body.t = "dict"

\* the server answered 2xx with a JSON object whose 'result' is a list
AnsweredList ==
    /\ AnsweredObject
    /\ "result" \in Keys(resp.body)
    /\ resp.body.v.result.t = "list"

IncidentListOps ==
    {"query_incidents", "get_open_incidents", "get_high_priority_incidents",
     "search_incidents_by_text", "get_incidents_by_caller",
     "get_incidents_by_assignment_group"}

CaseListOps ==
    {"query_cases", "get_open_cases", "get_high_priority_cases",
     "search_cases_by_text", "get_cases_by_contact", "get_cases_by_account"}

\* C1: a successful query_incidents, called directly or through a wrapper,
\* reports has_more exactly when the number of records the server returned
\* equals the limit asked for; with fewer records than the limit it is false.
C1_HasMoreIffFullPage ==
    (Succeeded /\ op \in IncidentListOps /\ AnsweredList) =>
        LET n == Len(resp.body.v.result.v) IN
        /\ ret.value.count = n
        /\ ret.value.has_more <=> (n = args.limit)
        /\ (n < args.limit => ~ret.value.has_more)

\* a direct query_incidents that got a full page of two, and one that got more
\* records than its limit
C1_Witness ==
    /\ Succeeded /\ op = "query_incidents" /\ AnsweredList
    /\ Len(resp.body.v.result.v) = 2
    /\ args.limit = 2
    /\ ret.value.has_more

PagedOps ==
    {"plugin.query_open_incidents", "plugin.query_high_priority_incidents",
     "plugin.search_incidents"}

\* the page texts that are the text of an integer, with the integer each denotes
IntegerValue ==
    (<<"1">> :> 1) @@ (<<"2">> :> 2) @@ (<<"3">> :> 3) @@ (<<"0">> :> 0)
    @@ (<<"-","1">> :> (0 - 1)) @@ (<<"+","1">> :> 1) @@ (<<" ","2">> :> 2)

IntegerPages ==
    /\ args.page_number.v \in DOMAIN IntegerValue
    /\ args.page_size.v \in DOMAIN IntegerValue

\* C2: in the three paged adapter functions, when page_number >= 1 and
\* page_size are texts of integers, the one query sent to the facade has
\* offset = (page_number - 1) * page_size and limit = page_size.
C2_PageOffset ==
    (Returned /\ op \in PagedOps /\ IntegerPages
     /\ IntegerValue[args.page_number.v] >= 1) =>
        LET page == IntegerValue[args.page_number.v]
            size == IntegerValue[args.page_size.v]
        IN /\ Len(called) = 1
           /\ called[1].op = "query_incidents"
           /\ called[1].args.offset = (page - 1) * size
           /\ called[1].args.limit = size
           /\ (page = 1 => called[1].args.offset = 0)

\* page 3 of size 2 asked of the search function: offset 4
C2_Witness ==
    /\ Returned /\ op = "plugin.search_incidents"
    /\ args.page_number.v = <<"3">> /\ args.page_size.v = <<" ","2">>
    /\ Len(called) = 1
    /\ called[1].args.offset = 4

\* a sequence of characters begins with another
StartsWith(s, prefix) ==
    Len(s) >= Len(prefix) /\ SubSeq(s, 1, Len(prefix)) = prefix

\* C9: in the three paged adapter functions, when page_number or page_size is
\* not the text of an integer, the function returns a text that begins
\* 'Invalid page parameters', raises nothing, and enters no facade operation
\* (so no request is issued).
C9_InvalidPageParameters ==
    (Returned /\ op \in PagedOps /\ ~IntegerPages) =>
        /\ ~ret.raised
        /\ ret.value.t = "str"
        /\ StartsWith(ret.value.v, <<"I","n","v","a","l","i","d"," ","p","a","g","e"," ","p","a","r","a","m","e","t","e","r","s">>)
        /\ called = <<>>
        /\ sent = <<>>

\* a page size of '2x' given to query_open_incidents with a valid page number
C9_Witness ==
    /\ Returned /\ op = "plugin.query_open_incidents"
    /\ args.page_number.v = <<"1">> /\ args.page_size.v = <<"2","x">>
    /\ Text(ret.value.v) = "Invalid page parameters for open incidents: "
                           \o "invalid literal for int() with base 10: '2x'"
    /\ called = <<>>

\* the encoded query of the one request sent
SentQuery == sent[1].params["sysparm_query"].v

\* 'f1LIKEt^ORf2LIKEt^OR...^ORfnLIKEt' for fields i..n
RECURSIVE LikeChain(_, _, _)
LikeChain(fields, t, i) ==
    IF i > Len(fields) THEN ""
    ELSE (IF i > 1 THEN "^OR" ELSE "") \o Text(fields[i]) \o "LIKE" \o t
         \o LikeChain(fields, t, i + 1)

\* C3: search_cases_by_text and search_incidents_by_text send
\* 'f1LIKEt^OR...^ORfnLIKEt' for the fields in the given order, the fields
\* being [short_description, description] when the list is absent or empty
\* ('login failure' gives the documented string); the adapter's
\* search_incidents sends what the facade builds for the default fields.
C3_TextSearchQuery ==
    /\ (Returned /\ op \in {"search_cases_by_text", "search_incidents_by_text"}) =>
           LET given == args.search_fields
               fields == IF given.t = "None" \/ given.v = <<>>
                         THEN <<short_description, description>> ELSE given.v
           IN /\ Len(sent) = 1
              /\ Text(SentQuery) = LikeChain(fields, Text(args.search_text.v), 1)
              /\ (args.search_text.v = login_failure /\ fields = <<short_description, description>>
                  => Text(SentQuery) =
                     "short_descriptionLIKElogin failure^ORdescriptionLIKElogin failure")
    /\ (Returned /\ op = "plugin.search_incidents" /\ sent # <<>>) =>
           /\ Text(SentQuery) =
                  LikeChain(<<short_description, description>>, Text(args.search_text.v), 1)
           /\ SentQuery = search_incidents_by_text(self, args.search_text, None,
                                                   1, 0, resp).sent[1].params["sysparm_query"].v

\* a search of two fields given in the order description, number
C3_Witness ==
    /\ Returned /\ op = "search_incidents_by_text"
    /\ args.search_text.v = login_failure
    /\ args.search_fields = List(<<description, <<"n","u","m","b","e","r">>>>)
    /\ Text(SentQuery) = "descriptionLIKElogin failure^ORnumberLIKElogin failure"

\* the pieces of a string between the occurrences of a character
RECURSIVE SplitAt(_, _, _)
SplitAt(s, c, piece) ==
    IF s = <<>> THEN <<piece>>
    ELSE IF Head(s) = c THEN <<piece>> \o SplitAt(Tail(s), c, <<>>)
    ELSE SplitAt(Tail(s), c, Append(piece, Head(s)))

\* the clauses of an encoded query: split at '^', the 'OR' of a '^OR' dropped
Clauses(q) ==
    LET pieces == SplitAt(q, "^", <<>>)
    IN [i \in 1..Len(pieces) |->
           IF i > 1 /\ StartsWith(pieces[i], <<"O","R">>)
           THEN SubSeq(pieces[i], 3, Len(pieces[i])) ELSE pieces[i]]

FilterOps ==
    {"search_cases_by_text", "search_incidents_by_text", "get_open_cases",
     "get_open_incidents", "get_high_priority_cases", "get_high_priority_incidents",
     "get_cases_by_contact", "get_cases_by_account", "get_incidents_by_caller",
     "get_incidents_by_assignment_group"}

\* the semantic clauses of a filter builder's invocation, in the order supplied
SemanticClauses ==
    CASE op \in {"search_cases_by_text", "search_incidents_by_text"} ->
           LET given == args.search_fields
               fields == IF given.t = "None" \/ given.v = <<>>
                         THEN <<short_description, description>> ELSE given.v
           IN [i \in 1..Len(fields) |-> fields[i] \o <<"L","I","K","E">> \o args.search_text.v]
      [] op = "get_open_cases" -> <<<<"s","t","a","t","e","!","=","3">>, <<"s","t","a","t","e","!","=","4">>>>
      [] op = "get_open_incidents" -> <<<<"s","t","a","t","e","!","=","6">>, <<"s","t","a","t","e","!","=","7">>>>
      [] op = "get_high_priority_cases" ->
           <<<<"p","r","i","o","r","i","t","y","=","1">>, <<"p","r","i","o","r","i","t","y","=","2">>, <<"s","t","a","t","e","!","=","3">>, <<"s","t","a","t","e","!","=","4">>>>
      [] op = "get_high_priority_incidents" ->
           <<<<"p","r","i","o","r","i","t","y","=","1">>, <<"p","r","i","o","r","i","t","y","=","2">>, <<"s","t","a","t","e","!","=","6">>, <<"s","t","a","t","e","!","=","7">>>>
      [] op = "get_cases_by_contact" -> <<<<"c","o","n","t","a","c","t","=">> \o args.contact_sys_id.v>>
      [] op = "get_cases_by_account" -> <<<<"a","c","c","o","u","n","t","=">> \o args.account_sys_id.v>>
      [] op = "get_incidents_by_caller" -> <<<<"c","a","l","l","e","r","_","i","d","=">> \o args.caller_id.v>>
      [] op = "get_incidents_by_assignment_group" ->
           <<<<"a","s","s","i","g","n","m","e","n","t","_","g","r","o","u","p","=">> \o args.assignment_group.v>>

\* C4: for all inputs of the filter builders, the encoded query sent, split
\* at the '^' and '^OR' delimiters, is the semantic clauses, each once, in
\* the order supplied.
C4_ClausesOnceInOrder ==
    (Returned /\ op \in FilterOps) => Clauses(SentQuery) = SemanticClauses

\* the same for inputs that hold no '^'
C4_ClausesWithoutDelimiterInInput ==
    (Returned /\ op \in FilterOps
     /\ \A k \in DOMAIN args :
            k \in {"search_text", "contact_sys_id", "account_sys_id", "caller_id",
                   "assignment_group"}
            => \A i \in 1..Len(args[k].v) : args[k].v[i] # "^")
    => Clauses(SentQuery) = SemanticClauses

\* the outcomes of the HTTP call that are no record answer: timeout, network
\* failure, non-2xx status, a body that is not JSON, not an object, or an
\* object whose 'result' is missing or null
NoRecordAnswer ==
    \/ resp.kind # "response"
    \/ resp.status # 200
    \/ resp.body.t # "dict"
    \/ "result" \notin Keys(resp.body)
    \/ resp.body.v.result.t = "None"

\* C5: every facade operation returns {success: false, error: <message>} and
\* raises nothing, for each such outcome of its HTTP call.
C5_FailureEnvelopeNeverRaises ==
    (Returned /\ NoRecordAnswer) => FailureEnvelope

\* the part of C5 that holds: a timeout, a network failure, a non-2xx status
\* and an unparseable body give the failure envelope
C5_TransportFailureEnvelope ==
    (Returned /\ (resp.kind # "response" \/ resp.status # 200 \/ resp.body.t = "invalid"))
    => FailureEnvelope

ByNumberOps == {"get_case_by_number", "get_incident_by_number"}

\* the number given to a by-number lookup, its table, and what its messages
\* and envelopes call the record
GivenNumber ==
    IF op = "get_case_by_number" THEN args.case_number.v ELSE args.incident_number.v

ByNumberTable == IF op = "get_case_by_number" THEN self.case_table ELSE incident_table

ByNumberNoun == IF op = "get_case_by_number" THEN <<"C","a","s","e">> ELSE <<"I","n","c","i","d","e","n","t">>

ByNumberKey == IF op = "get_case_by_number" THEN "case" ELSE "incident"

\* C6: a lookup by number issues one GET on the table, filtered by
\* 'number=<given number>' with limit 1; an empty result list gives the
\* envelope {success: false, error: '<Case|Incident> <number> not found'} with
\* no record and nothing raised; a non-empty one gives success with the first
\* record of the list.
C6_LookupByNumber ==
    (Returned /\ op \in ByNumberOps) =>
        /\ Len(sent) = 1
        /\ sent[1].method = "GET"
        /\ sent[1].url = table_url(self, ByNumberTable)
        /\ sent[1].params = [sysparm_query |-> Str(<<"n","u","m","b","e","r","=">> \o GivenNumber),
                             sysparm_limit |-> 1]
        /\ (AnsweredList /\ resp.body.v.result.v = <<>>) =>
               /\ FailureEnvelope
               /\ ret.value.error.v = ByNumberNoun \o <<" ">> \o GivenNumber \o <<" ","n","o","t"," ","f","o","u","n","d">>
        /\ (AnsweredList /\ resp.body.v.result.v # <<>>) =>
               /\ Succeeded
               /\ DOMAIN ret.value = {"success", ByNumberKey}
               /\ ret.value[ByNumberKey] = resp.body.v.result.v[1]

\* a lookup of an incident number of which the server has no record
C6_Witness ==
    /\ Returned /\ op = "get_incident_by_number" /\ AnsweredList
    /\ resp.body.v.result.v = <<>>
    /\ FailureEnvelope

\* the ways a server reports that an identifier matches no record: a 404, or
\* a 2xx object whose 'result' is missing, null or empty
ZeroRecords ==
    \/ resp.kind = "response" /\ resp.status = 404
    \/ AnsweredObject /\ ~Truthy(Get(resp.body, "result", None))

\* C7: get_case and get_incident return a failure envelope with no record,
\* and raise nothing, whenever the identifier matches zero records,
\* whichever way the server reports that; never success with an empty record.
C7_FetchByIdNotFound ==
    (Returned /\ op \in {"get_case", "get_incident"} /\ ZeroRecords) => FailureEnvelope

\* the part of C7 that holds: a 404 gives the failure envelope
C7_FetchByIdNon2xx ==
    (Returned /\ op \in {"get_case", "get_incident"}
     /\ resp.kind = "response" /\ resp.status = 404) => FailureEnvelope

MutationWrappers ==
    {"add_case_comment", "close_case", "assign_case", "add_incident_comment",
     "resolve_incident", "close_incident", "assign_incident"}

ListWrappers ==
    (CaseListOps \cup IncidentListOps) \ {"query_cases", "query_incidents"}

\* the identifier given to a mutation wrapper
GivenSysId ==
    IF "case_sys_id" \in DOMAIN args THEN args.case_sys_id.v ELSE args.incident_sys_id.v

\* C8: an invocation of a facade operation issues at most one HTTP request,
\* whatever the outcome; a convenience wrapper issues exactly the one request
\* of its primitive: a PATCH of the record for assign, resolve, close and add
\* comment, a GET of the table for the open, high-priority, search and by-key
\* queries.
C8_AtMostOneRequest ==
    Returned =>
        /\ Len(sent) <= 1
        /\ op \in MutationWrappers =>
               /\ Len(sent) = 1
               /\ sent[1].method = "PATCH"
               /\ sent[1].url = table_url(self, IF op \in {"add_case_comment", "close_case",
                                                           "assign_case"}
                                                THEN self.case_table ELSE incident_table)
                                \o <<"/">> \o GivenSysId
        /\ op \in ListWrappers =>
               /\ Len(sent) = 1
               /\ sent[1].method = "GET"
               /\ sent[1].url = table_url(self, IF op \in CaseListOps
                                                THEN self.case_table ELSE incident_table)

\* a close of an incident that timed out: one request, a failure envelope
C8_Witness ==
    /\ Returned /\ op = "close_incident" /\ resp.kind = "Timeout"
    /\ Len(sent) = 1
    /\ FailureEnvelope

\* the offset an invocation of a list operation asked for: 0 when the
\* operation takes none
RequestedOffset == IF "offset" \in DOMAIN args THEN args.offset ELSE 0

\* C10 as stated: every successful list operation, of cases and of incidents,
\* returns an envelope with count, offset, limit and has_more, the offset and
\* limit being those requested.
C10_EveryListEnvelopePaged ==
    (Succeeded /\ op \in CaseListOps \cup IncidentListOps) =>
        /\ {"count", "offset", "limit", "has_more"} \subseteq DOMAIN ret.value
        /\ ret.value.offset = RequestedOffset
        /\ ret.value.limit = args.limit

\* C10: every successful incident list operation (query_incidents and the
\* wrappers that delegate to it) returns an envelope of success, count,
\* offset, limit, has_more and incidents, with the limit requested and the
\* offset requested (0 for a wrapper that takes none); every successful case
\* list operation (query_cases and its wrappers) returns success, count and
\* cases only.
C10_ListEnvelopes ==
    /\ (Succeeded /\ op \in IncidentListOps) =>
           /\ DOMAIN ret.value =
                  {"success", "count", "offset", "limit", "has_more", "incidents"}
           /\ ret.value.offset = RequestedOffset
           /\ ret.value.limit = args.limit
    /\ (Succeeded /\ op \in CaseListOps) =>
           DOMAIN ret.value = {"success", "count", "cases"}

\* a page of open incidents asked for at offset 1 with limit 2
C10_Witness ==
    /\ Succeeded /\ op = "get_open_incidents"
    /\ args.offset = 1 /\ args.limit = 2
    /\ ret.value.offset = 1 /\ ret.value.limit = 2

\* the envelope keys that hold a record or a list of records
RecordKeys == {"case", "incident", "cases", "incidents"}

\* C11: every envelope a facade operation returns has a boolean 'success';
\* with success true it has data fields and no 'error' key, with success
\* false it has an 'error' message and no record or record-list field.
C11_EnvelopeShape ==
    (Returned /\ ~ret.raised) =>
        /\ "success" \in DOMAIN ret.value
        /\ ret.value.success \in BOOLEAN
        /\ ret.value.success =>
               /\ "error" \notin DOMAIN ret.value
               /\ DOMAIN ret.value \ {"success"} # {}
        /\ ~ret.value.success =>
               /\ "error" \in DOMAIN ret.value
               /\ ret.value.error.t = "str"
               /\ DOMAIN ret.value \cap RecordKeys = {}

\* an update of an incident that the server refused with a 500
C11_Witness ==
    /\ Returned /\ op = "update_incident"
    /\ resp.kind = "response" /\ resp.status = 500
    /\ ~ret.raised /\ ~ret.value.success
    /\ DOMAIN ret.value = {"success", "error"}

\* an optional field of a wrapper's mapping: there iff supplied non-empty
Supplied(k, x) == IF x.t = "str" /\ x.v # <<>> THEN k :> x ELSE <<>>

\* the field mapping of a convenience mutation: its fixed fields and the
\* optional ones supplied
WrapperUpdates ==
    CASE op \in {"assign_case", "assign_incident"} ->
           ("assigned_to" :> args.assigned_to)
           @@ Supplied("assignment_group", args.assignment_group)
      [] op = "resolve_incident" ->
           ("state" :> Str(<<"6">>)) @@ ("resolved_at" :> Str(<<"j","a","v","a","s","c","r","i","p","t",":","g","s",".","n","o","w","D","a","t","e","T","i","m","e","(",")">>))
           @@ Supplied("resolution_notes", args.resolution_notes)
           @@ Supplied("resolution_code", args.resolution_code)
      [] op = "close_incident" ->
           ("state" :> Str(<<"7">>)) @@ ("closed_at" :> Str(<<"j","a","v","a","s","c","r","i","p","t",":","g","s",".","n","o","w","D","a","t","e","T","i","m","e","(",")">>))
           @@ Supplied("close_notes", args.close_notes)
           @@ Supplied("close_code", args.close_code)
      [] op = "close_case" ->
           ("state" :> Str(<<"3">>)) @@ ("resolved_at" :> Str(<<"j","a","v","a","s","c","r","i","p","t",":","g","s",".","n","o","w","D","a","t","e","T","i","m","e","(",")">>))
           @@ Supplied("resolution_notes", args.resolution_notes)
           @@ Supplied("close_code", args.close_code)
      [] op \in {"add_case_comment", "add_incident_comment"} ->
           args.comment_type :> args.comment

\* what the update primitive does with the wrapper's identifier and mapping
\* and the same answer of the server
UpdateCall ==
    IF op \in {"add_case_comment", "close_case", "assign_case"}
    THEN update_case(self, args.case_sys_id, Dict(WrapperUpdates), resp)
    ELSE update_incident(self, args.incident_sys_id, Dict(WrapperUpdates), resp)

---------------------------------------------------------------------------
(* State codes.  What the codes of the 'state' field mean in each table,   *)
(* as the facade's comments give them.                                     *)

\* ServiceNow case states: 1=Open, 2=Work in Progress, 3=Resolved, 4=Closed
case_states ==
    (<<"1">> :> "Open") @@ (<<"2">> :> "Work in Progress") @@ (<<"3">> :> "Resolved")
    @@ (<<"4">> :> "Closed")

\* ServiceNow incident states: 1=New, 2=In Progress, 3=On Hold, 6=Resolved, 7=Closed
incident_states ==
    (<<"1">> :> "New") @@ (<<"2">> :> "In Progress") @@ (<<"3">> :> "On Hold")
    @@ (<<"6">> :> "Resolved") @@ (<<"7">> :> "Closed")

\* the state codes of the records a table holds
states_of(table) == IF table = incident_table THEN incident_states ELSE case_states

\* the 'state' a mutation sends
SentState == sent[1].json.v["state"].v

\* C13: a close sets the record's state to the closed-state code:
\* close_incident sends '7' and close_case sends the case code '4', so that
\* the state sent is the one named Closed among the states of the table the
\* request goes to.
C13_CloseSetsClosedCode ==
    (Returned /\ op \in {"close_incident", "close_case"}) =>
        /\ SentState = (IF op = "close_incident" THEN <<"7">> ELSE <<"4">>)
        /\ states_of(IF op = "close_incident" THEN incident_table ELSE self.case_table)
               [SentState] = "Closed"

\* the part of C13 that holds: close_incident sends the incident code Closed
C13_CloseIncidentSetsClosed ==
    (Returned /\ op = "close_incident") =>
        SentState = <<"7">> /\ incident_states[SentState] = "Closed"

\* the table a list request goes to
QueriedTable == IF sent[1].url = table_url(self, incident_table) THEN incident_table
                ELSE self.case_table

\* the codes of a table's terminal states
TerminalCodes(table) ==
    {c \in DOMAIN states_of(table) : states_of(table)[c] \in {"Resolved", "Closed"}}

\* the state codes a query of 'state!=<code>' clauses excludes
ExcludedStates(q) ==
    {SubSeq(Clauses(q)[i], 8, Len(Clauses(q)[i])) :
        i \in {j \in 1..Len(Clauses(q)) : StartsWith(Clauses(q)[j], <<"s","t","a","t","e","!","=">>)}}

\* what a server that applies the filter faithfully returns of a table
\* holding one record in each state: the records in the states not excluded
StatesReturned(q, table) == DOMAIN states_of(table) \ ExcludedStates(q)

OpenQueryOps == {"get_open_incidents", "get_open_cases", "plugin.query_open_incidents"}

\* C14: every 'open' query excludes exactly the resolved and closed codes of
\* the table it goes to: a faithful server returns no resolved or closed
\* record and leaves out no open-like one.
C14_OpenExcludesTerminal ==
    (Returned /\ op \in OpenQueryOps /\ Len(sent) = 1) =>
        /\ ExcludedStates(SentQuery) = TerminalCodes(QueriedTable)
        /\ StatesReturned(SentQuery, QueriedTable) =
               DOMAIN states_of(QueriedTable) \ TerminalCodes(QueriedTable)

\* the part of C14 that holds: the open incident queries exclude 6 and 7
C14_OpenIncidentsExcludeTerminal ==
    (Returned /\ op \in {"get_open_incidents", "plugin.query_open_incidents"}
     /\ Len(sent) = 1) =>
        /\ QueriedTable = incident_table
        /\ ExcludedStates(SentQuery) = {<<"6">>, <<"7">>}
        /\ StatesReturned(SentQuery, incident_table) = {<<"1">>, <<"2">>, <<"3">>}

HighPriorityIncidentOps ==
    {"get_high_priority_incidents", "plugin.query_high_priority_incidents"}

\* C15: every high-priority incident query sends the alternatives priority 1
\* or 2 together with the open-state exclusion (state not 6, not 7), so a
\* faithful server lists no resolved or closed incident.
C15_HighPriorityExcludesTerminal ==
    (Returned /\ op \in HighPriorityIncidentOps /\ Len(sent) = 1) =>
        /\ SubSeq(Clauses(SentQuery), 1, 2) = <<<<"p","r","i","o","r","i","t","y","=","1">>, <<"p","r","i","o","r","i","t","y","=","2">>>>
        /\ StartsWith(SentQuery, <<"p","r","i","o","r","i","t","y","=","1","^","O","R","p","r","i","o","r","i","t","y","=","2">>)
        /\ ExcludedStates(SentQuery) = {<<"6">>, <<"7">>}
        /\ StatesReturned(SentQuery, incident_table) \cap TerminalCodes(incident_table) = {}

\* the part of C15 that holds: the facade's own high-priority incident query
C15_FacadeHighPriorityExcludesTerminal ==
    (Returned /\ op = "get_high_priority_incidents") =>
        /\ SentQuery = <<"p","r","i","o","r","i","t","y","=","1","^","O","R","p","r","i","o","r","i","t","y","=","2","^","s","t","a","t","e","!","=","6","^","s","t","a","t","e","!","=","7">>
        /\ ExcludedStates(SentQuery) = {<<"6">>, <<"7">>}

---------------------------------------------------------------------------
(* The facade against an external system that keeps what it is given.      *)
(* The answer to each request is what the Table API gives for the records  *)
(* held: a POST adds a record under a new sys_id, a GET or PATCH of        *)
(* table/<sys_id> reads or changes that record or is a 404, a GET of the   *)
(* table lists the records at the positions offset .. offset+limit-1 of    *)
(* those the query's state exclusions leave.                               *)

MaxStored == 2

ok(body) == [kind |-> "response", status |-> 200, body |-> body, msg |-> <<>>]

not_found == [kind |-> "response", status |-> 404, body |-> None,
              msg |-> <<"4","0","4"," ","C","l","i","e","n","t"," ","E","r","r","o","r">>]

\* a response no request has had yet: what a request is built before
unanswered == [kind |-> "Timeout", status |-> 0, body |-> None, msg |-> <<>>]

\* the positions in the store of the record at a URL
at(st, url) == {i \in 1..Len(st) : st[i].url = url}

\* the records a list request matches: those of the table whose state the
\* query does not exclude
matching(st, req) ==
    LET query == IF "sysparm_query" \in DOMAIN req.params
                 THEN req.params["sysparm_query"].v ELSE <<>>
        keeps(rec) == /\ StartsWith(rec.url, req.url \o <<"/">>)
                      /\ rec.fields["state"].v \notin ExcludedStates(query)
    IN SelectSeq(st, keeps)

\* the page of a list request: positions offset .. offset+limit-1, from 0
page(records, offset, limit) ==
    LET lo == IF offset < 0 THEN 1 ELSE offset + 1
        hi == IF offset + limit > Len(records) THEN Len(records) ELSE offset + limit
    IN IF lo > hi THEN <<>> ELSE SubSeq(records, lo, hi)

\* the store after a request and the answer to it
serve(st, req) ==
    CASE req.method = "POST" ->
           LET id == <<"i","d">> \o decimal(Len(st) + 1)
               fields == ("sys_id" :> Str(id))
                         @@ ("number" :> Str(<<"I","N","C">> \o decimal(Len(st) + 1)))
                         @@ req.json.v
                         @@ ("state" :> Str(<<"1">>))
           IN [store |-> Append(st, [url |-> req.url \o <<"/">> \o id, fields |-> fields]),
               resp |-> ok(Dict([result |-> Dict(fields)]))]
      [] req.method = "PATCH" ->
           IF at(st, req.url) = {} THEN [store |-> st, resp |-> not_found]
           ELSE LET i == CHOOSE j \in at(st, req.url) : TRUE
                    fields == req.json.v @@ st[i].fields
                IN [store |-> [st EXCEPT ![i].fields = fields],
                    resp |-> ok(Dict([result |-> Dict(fields)]))]
      [] req.method = "GET" /\ "sysparm_limit" \notin DOMAIN req.params ->
           IF at(st, req.url) = {} THEN [store |-> st, resp |-> not_found]
           ELSE [store |-> st,
                 resp |-> ok(Dict([result |->
                              Dict(st[CHOOSE j \in at(st, req.url) : TRUE].fields)]))]
      [] req.method = "GET" /\ "sysparm_limit" \in DOMAIN req.params ->
           LET records == page(matching(st, req),
                               IF "sysparm_offset" \in DOMAIN req.params
                               THEN req.params["sysparm_offset"] ELSE 0,
                               req.params["sysparm_limit"])
           IN [store |-> st,
               resp |-> ok(Dict([result |->
                            List([i \in 1..Len(records) |-> Dict(records[i].fields)])]))]

\* an invocation's record, as Invoke leaves it
Outcome(name, a, r, call) ==
    /\ pc' = "returned"
    /\ op' = name
    /\ args' = a
    /\ resp' = r
    /\ called' = <<[op |-> name, args |-> a]>>
    /\ sent' = call.sent
    /\ ret' = call.out

\* additional_fields of a creation: none, another field, the summary itself
AdditionalFields ==
    {None, Dict([state |-> Str(<<"2">>)]), Dict([short_description |-> Str(<<"o","t","h","e","r">>)])}

Summaries == {Str(<<"d","i","s","k">>)}

\* test_create_case: create, and keep result.get("sys_id") if it succeeded
CreateCaseStored ==
    /\ pc = "idle"
    /\ Len(store) < MaxStored
    /\ \E sd \in Summaries, d \in {None}, f \in AdditionalFields :
           LET a == [short_description |-> sd, description |-> d, priority |-> Str(<<"3">>),
                     contact |-> None, account |-> None, category |-> None,
                     additional_fields |-> f]
               req == create_case(env, self, sd, d, Str(<<"3">>), None, None, None, f,
                                  unanswered).sent[1]
               sv == serve(store, req)
               call == create_case(env, self, sd, d, Str(<<"3">>), None, None, None, f, sv.resp)
           IN /\ Outcome("create_case", a, sv.resp, call)
              /\ store' = sv.store
              /\ created_sys_id' = IF ~call.out.raised /\ call.out.value.success
                                   THEN call.out.value.sys_id ELSE None
              /\ creation' = [op |-> "create_case", args |-> a, updated |-> FALSE]
    /\ UNCHANGED <<assistant, traversal, inflight, env, self>>

CreateIncidentStored ==
    /\ pc = "idle"
    /\ Len(store) < MaxStored
    /\ \E sd \in Summaries, d \in {None}, f \in AdditionalFields :
           LET a == [short_description |-> sd, description |-> d, priority |-> Str(<<"3">>),
                     urgency |-> Str(<<"3">>), impact |-> Str(<<"3">>), caller_id |-> None,
                     assignment_group |-> None, category |-> None, subcategory |-> None,
                     additional_fields |-> f]
               req == create_incident(env, self, sd, d, Str(<<"3">>), Str(<<"3">>), Str(<<"3">>),
                                      None, None, None, None, f, unanswered).sent[1]
               sv == serve(store, req)
               call == create_incident(env, self, sd, d, Str(<<"3">>), Str(<<"3">>), Str(<<"3">>),
                                       None, None, None, None, f, sv.resp)
           IN /\ Outcome("create_incident", a, sv.resp, call)
              /\ store' = sv.store
              /\ created_sys_id' = IF ~call.out.raised /\ call.out.value.success
                                   THEN call.out.value.sys_id ELSE None
              /\ creation' = [op |-> "create_incident", args |-> a, updated |-> FALSE]
    /\ UNCHANGED <<assistant, traversal, inflight, env, self>>

\* test_get_case, under `if case_sys_id:`
GetCaseStored ==
    /\ pc = "idle"
    /\ Truthy(created_sys_id)
    /\ creation.op = "create_case"
    /\ LET sv == serve(store, get_case(self, created_sys_id, unanswered).sent[1])
       IN Outcome("get_case", [case_sys_id |-> created_sys_id], sv.resp,
                  get_case(self, created_sys_id, sv.resp))
    /\ UNCHANGED <<assistant, traversal, inflight, env, self, store, created_sys_id, creation>>

GetIncidentStored ==
    /\ pc = "idle"
    /\ Truthy(created_sys_id)
    /\ creation.op = "create_incident"
    /\ LET sv == serve(store, get_incident(self, created_sys_id, unanswered).sent[1])
       IN Outcome("get_incident", [incident_sys_id |-> created_sys_id], sv.resp,
                  get_incident(self, created_sys_id, sv.resp))
    /\ UNCHANGED <<assistant, traversal, inflight, env, self, store, created_sys_id, creation>>

StoredUpdates == {Dict([short_description |-> Str(<<"c","h","a","n","g","e","d">>)])}

\* test_update_case, under `if case_sys_id:`
UpdateCaseStored ==
    /\ pc = "idle"
    /\ Truthy(created_sys_id)
    /\ creation.op = "create_case"
    /\ \E u \in StoredUpdates :
           LET sv == serve(store, update_case(self, created_sys_id, u, unanswered).sent[1])
           IN /\ Outcome("update_case", [case_sys_id |-> created_sys_id, updates |-> u],
                         sv.resp, update_case(self, created_sys_id, u, sv.resp))
              /\ store' = sv.store
    /\ creation' = [creation EXCEPT !.updated = TRUE]
    /\ UNCHANGED <<assistant, traversal, inflight, env, self, created_sys_id>>

UpdateIncidentStored ==
    /\ pc = "idle"
    /\ Truthy(created_sys_id)
    /\ creation.op = "create_incident"
    /\ \E u \in StoredUpdates :
           LET sv == serve(store, update_incident(self, created_sys_id, u, unanswered).sent[1])
           IN /\ Outcome("update_incident",
                         [incident_sys_id |-> created_sys_id, updates |-> u],
                         sv.resp, update_incident(self, created_sys_id, u, sv.resp))
              /\ store' = sv.store
    /\ creation' = [creation EXCEPT !.updated = TRUE]
    /\ UNCHANGED <<assistant, traversal, inflight, env, self, created_sys_id>>

\* the limits and offsets of a list request: those a caller gives and those
\* the adapter derives from a page number below 1 or a negative page size
StoredLimits == (0 - 1)..MaxLimit
StoredOffsets == (0 - 1)..MaxOffset

QueryIncidentsStored ==
    /\ pc = "idle"
    /\ \E l \in StoredLimits, o \in StoredOffsets :
           LET sv == serve(store, query_incidents(self, None, l, o, None, None,
                                                  unanswered).sent[1])
           IN Outcome("query_incidents",
                      [query |-> None, limit |-> l, offset |-> o, order_by |-> None,
                       fields |-> None],
                      sv.resp, query_incidents(self, None, l, o, None, None, sv.resp))
    /\ UNCHANGED <<assistant, traversal, inflight, env, self, store, created_sys_id, creation>>

\* page numbers and page sizes, as text: one below 1 and a negative size
\* among them
StoredPageNumbers == {Str(<<"1">>), Str(<<"2">>), Str(<<"0">>)}
StoredPageSizes == {Str(<<"1">>), Str(<<"-","1">>)}

QueryOpenIncidentsStored ==
    /\ pc = "idle"
    /\ \E n \in StoredPageNumbers, z \in StoredPageSizes :
           LET sv == serve(store, query_open_incidents(self, n, z, unanswered).sent[1])
               call == query_open_incidents(self, n, z, sv.resp)
           IN /\ pc' = "returned"
              /\ op' = "plugin.query_open_incidents"
              /\ args' = [page_number |-> n, page_size |-> z]
              /\ resp' = sv.resp
              /\ called' = call.called
              /\ sent' = call.sent
              /\ ret' = call.out
    /\ UNCHANGED <<assistant, traversal, inflight, env, self, store, created_sys_id, creation>>

StoreNext ==
    \/ CreateCaseStored \/ CreateIncidentStored \/ GetCaseStored \/ GetIncidentStored
    \/ UpdateCaseStored \/ UpdateIncidentStored
    \/ QueryIncidentsStored \/ QueryOpenIncidentsStored \/ Continue

StoreSpec == Init /\ [][StoreNext]_vars

\* a fetch of the record created, no update of it in between
FetchedCreated ==
    /\ Returned /\ op \in {"get_case", "get_incident"}
    /\ ~creation.updated

\* the short_description of the record a fetch returned
FetchedSummary ==
    Get(ret.value[IF op = "get_case" THEN "case" ELSE "incident"],
        "short_description", None)

\* the creation's additional_fields set short_description themselves
SummaryOverridden ==
    /\ creation.args.additional_fields.t = "dict"
    /\ "short_description" \in Keys(creation.args.additional_fields)

\* C16 as stated: after a creation with short_description s succeeded, the
\* fetch by the sys_id of its envelope succeeds and returns a record whose
\* short_description is s, no update having happened in between.
C16_RoundTrip ==
    FetchedCreated =>
        /\ Succeeded
        /\ FetchedSummary = creation.args.short_description

\* C16: the same, for the creations whose additional_fields do not set
\* short_description themselves; where they do, the record created and
\* fetched has the short_description of additional_fields, which is applied
\* over the named arguments.
C16_RoundTripUnlessOverridden ==
    FetchedCreated =>
        /\ Succeeded
        /\ FetchedSummary = (IF SummaryOverridden
                             THEN creation.args.additional_fields.v["short_description"]
                             ELSE creation.args.short_description)

\* a case created with 'disk' and another field beside, fetched back with it
C16_Witness ==
    /\ FetchedCreated /\ op = "get_case" /\ Succeeded
    /\ creation.args.short_description = Str(<<"d","i","s","k">>)
    /\ creation.args.additional_fields = Dict([state |-> Str(<<"2">>)])
    /\ ret.value.case.v["short_description"] = Str(<<"d","i","s","k">>)
    /\ ret.value.case.v["sys_id"] = created_sys_id

\* the records of the store a list request matched
Matched == matching(store, sent[1])

\* no matching record lies beyond the records returned: none at a position,
\* counted from 0, that is neither before the page nor in it
NothingBeyond ==
    {p \in 0..(Len(Matched) - 1) : p >= args.offset /\ p >= args.offset + args.limit} = {}

C17_AdapterNoneFound ==
    (Returned /\ op = "plugin.query_open_incidents" /\ Len(sent) = 1
     /\ sent[1].params["sysparm_limit"] >= 1 /\ sent[1].params["sysparm_offset"] >= 0
     /\ ret.value = Str(<<"N","o"," ","o","p","e","n"," ","i","n","c","i","d","e","n","t","s"," ","f","o","u","n","d",".">>))
    => Len(Matched) <= sent[1].params["sysparm_offset"]


\* ---- the list request (C18) ----

BaseListOps == {"query_cases", "query_incidents"}
OffsetWrappers ==
    {"get_open_incidents", "get_high_priority_incidents", "search_incidents_by_text"}

\* the parameter k of the request is present exactly when the argument x is
\* non-empty, and then carries the value v
PresentIffGiven(k, x, v) ==
    /\ (k \in DOMAIN sent[1].params) <=> Truthy(x)
    /\ Truthy(x) => sent[1].params[k] = v

\* C18: query_cases and query_incidents send one GET whose sysparm_limit and
\* sysparm_offset are the caller's limit and offset, whose sysparm_orderby is
\* the caller's order_by unchanged, a leading "^" kept, and whose
\* sysparm_query, sysparm_orderby and sysparm_fields are present exactly when
\* the argument is non-empty; get_open_incidents, get_high_priority_incidents
\* and search_incidents_by_text send the caller's offset unchanged.
C18_ListRequest ==
    /\ (Returned /\ op \in BaseListOps) =>
           /\ Len(sent) = 1
           /\ sent[1].method = "GET"
           /\ sent[1].params["sysparm_limit"] = args.limit
           /\ sent[1].params["sysparm_offset"] = args.offset
           /\ PresentIffGiven("sysparm_query", args.query, args.query)
           /\ PresentIffGiven("sysparm_orderby", args.order_by, args.order_by)
           /\ PresentIffGiven("sysparm_fields", args.fields,
                              Str(join(<<",">>, args.fields.v)))
    /\ (Returned /\ op \in OffsetWrappers) =>
           /\ Len(sent) = 1
           /\ sent[1].params["sysparm_offset"] = args.offset

\* query_incidents with a descending order, an offset, fields and an empty
\* query was sent
C18_Witness ==
    /\ Returned /\ op = "query_incidents"
    /\ args.order_by = Str(<<"^","s","y","s","_","u","p","d","a","t","e","d","_","o","n">>)
    /\ args.offset = 1 /\ args.limit = 2
    /\ args.query = Str(<<>>) /\ Truthy(args.fields)
    /\ sent[1].params["sysparm_orderby"] = Str(<<"^","s","y","s","_","u","p","d","a","t","e","d","_","o","n">>)
    /\ "sysparm_query" \notin DOMAIN sent[1].params
    /\ sent[1].params["sysparm_fields"] = Str(<<"n","u","m","b","e","r",",","s","t","a","t","e">>)


\* ---- authentication (C20) ----

TokenConfigured == Truthy(env.SERVICENOW_API_TOKEN)
BasicConfigured == Truthy(env.SERVICENOW_USERNAME) /\ Truthy(env.SERVICENOW_PASSWORD)

\* the request carries the bearer token and no basic credentials
BearerRequest(q) ==
    /\ "Authorization" \in DOMAIN q.headers
    /\ q.headers["Authorization"] = Str(<<"B","e","a","r","e","r"," ">> \o env.SERVICENOW_API_TOKEN.v)
    /\ q.auth = None

\* the request carries the basic credentials and no Authorization header
BasicRequest(q) ==
    /\ "Authorization" \notin DOMAIN q.headers
    /\ q.auth = List(<<env.SERVICENOW_USERNAME, env.SERVICENOW_PASSWORD>>)

\* C20: the presence of a token alone selects the authentication: with a token
\* configured every request carries "Authorization: Bearer <token>" and no
\* basic credentials, also when a username and password are configured; with
\* no token every request carries the basic credentials (username, password)
\* and no Authorization header.
C20_AuthByToken ==
    \A i \in 1..Len(sent) :
        IF TokenConfigured THEN BearerRequest(sent[i]) ELSE BasicRequest(sent[i])

\* a request was sent with a token and a username and password all configured
C20_Witness ==
    /\ Returned /\ op = "create_incident" /\ Len(sent) = 1
    /\ TokenConfigured /\ BasicConfigured
    /\ sent[1].auth = None
    /\ sent[1].headers["Authorization"] = Str(<<"B","e","a","r","e","r"," ","t","o","k">>)

\* a request was sent with no token configured
C20_WitnessBasic ==
    /\ Returned /\ op = "get_case" /\ Len(sent) = 1
    /\ ~TokenConfigured
    /\ sent[1].auth = List(<<Str(<<"a","d","m","i","n">>), Str(<<"p","w">>)>>)


---------------------------------------------------------------------------
(* Invocations in flight at the same time on the shared instance: each     *)
(* caller's request is built from the instance when it calls, the envelope *)
(* when its own response arrives, and other callers run in between.        *)

\* an instance that a case operation switches to the case table
instance_retargeted(s, name, a) ==
    IF name \in {"create_case", "get_case"}
    THEN [s EXCEPT !.case_table = <<"s","n","_","c","u","s","t","o","m","e","r","s","e","r","v","i","c","e","_","c","a","s","e">>] ELSE s

\* the instance after an operation ran: no method assigns to a field of self
\* or to a module-level name
instance_after(s, name, a) == s

\* the operation `name` on instance s with arguments a and response r
call(name, e, s, a, r) ==
    CASE name = "create_case" ->
           create_case(e, s, a.short_description, a.description, a.priority, a.contact,
                       a.account, a.category, a.additional_fields, r)
      [] name = "get_case" -> get_case(s, a.case_sys_id, r)
      [] name = "get_incident" -> get_incident(s, a.incident_sys_id, r)
      [] name = "update_incident" -> update_incident(s, a.incident_sys_id, a.updates, r)
      [] name = "query_incidents" ->
           query_incidents(s, a.query, a.limit, a.offset, a.order_by, a.fields, r)

\* the requests of an operation are built before any response is there
requests_of(name, e, s, a) == call(name, e, s, a, CHOOSE r \in Responses : TRUE).sent

ConcurrentCalls ==
    {[op |-> "create_case",
      args |-> [short_description |-> Str(<<"d","i","s","k">>), description |-> None,
                priority |-> Str(<<"3">>), contact |-> None, account |-> None,
                category |-> None, additional_fields |-> None]],
     [op |-> "get_case", args |-> [case_sys_id |-> Str(<<"i","d","1">>)]],
     [op |-> "get_incident", args |-> [incident_sys_id |-> Str(<<"i","d","9">>)]],
     [op |-> "update_incident",
      args |-> [incident_sys_id |-> Str(<<"i","d","1">>), updates |-> Dict([state |-> Str(<<"2">>)])]],
     [op |-> "query_incidents",
      args |-> [query |-> None, limit |-> 1, offset |-> 1, order_by |-> None,
                fields |-> None]]}

ConcurrentResponses ==
    {r \in Responses :
        \/ r.kind = "Timeout"
        \/ r.status = 200 /\ r.body \in {Dict([result |-> record1]),
                                          Dict([result |-> Records(1)])}}

\* caller c invokes an operation: its request goes out
Call(c) ==
    /\ inflight[c].pc = "idle"
    /\ \E k \in ConcurrentCalls :
           inflight' = [inflight EXCEPT ![c] =
                           [pc |-> "waiting", op |-> k.op, args |-> k.args,
                            sent |-> requests_of(k.op, env, self, k.args),
                            resp |-> None, ret |-> None]]
    /\ UNCHANGED <<env, self, pc, op, args, called, sent, resp, ret, store,
                   created_sys_id, creation, traversal, assistant>>

\* the response to caller c's request arrives and its operation returns
Answer(c) ==
    /\ inflight[c].pc = "waiting"
    /\ \E r \in ConcurrentResponses :
           LET i == inflight[c] IN
           inflight' = [inflight EXCEPT ![c] =
                           [i EXCEPT !.pc = "returned", !.resp = r,
                                     !.ret = call(i.op, env, self, i.args, r).out]]
    /\ self' = instance_after(self, inflight[c].op, inflight[c].args)
    /\ UNCHANGED <<env, pc, op, args, called, sent, resp, ret, store,
                   created_sys_id, creation, traversal, assistant>>

\* caller c takes the envelope
Take(c) ==
    /\ inflight[c].pc = "returned"
    /\ inflight' = [inflight EXCEPT ![c] = no_call]
    /\ UNCHANGED <<env, self, pc, op, args, called, sent, resp, ret, store,
                   created_sys_id, creation, traversal, assistant>>

ConcurrentNext == \E c \in Callers : Call(c) \/ Answer(c) \/ Take(c)

ConcurrentSpec == Init /\ [][ConcurrentNext]_vars

\* the instance as constructed at module load
constructed == init(env, incident_table)

\* caller c's request and envelope are those its operation gives on the
\* instance as constructed, for its own arguments and its own response
OwnOutcome(c) ==
    LET i == inflight[c] IN
    /\ i.pc # "idle" => i.sent = requests_of(i.op, env, constructed, i.args)
    /\ i.pc = "returned" => i.ret = call(i.op, env, constructed, i.args, i.resp).out

\* every caller's request and envelope are its own
OwnOutcomes == \A c \in Callers : OwnOutcome(c)

---------------------------------------------------------------------------
(* Loading the module: the configuration is read from the environment and  *)
(* checked before the class is defined; the shared instance is constructed *)
(* only when the adapter module is loaded after it.                        *)

\* every environment the module can be loaded under: each variable unset, set
\* to the empty string, or set
Environments ==
    LET Setting == {None, Str(<<>>), Str(<<"x">>)} IN
    [SERVICENOW_INSTANCE : Setting, SERVICENOW_USERNAME : Setting,
     SERVICENOW_PASSWORD : Setting, SERVICENOW_API_TOKEN : Setting]

\* a load that asks for the basic credentials whether a token is set or not
load_requires_basic(e) ==
    IF ~Truthy(e.SERVICENOW_INSTANCE)
    THEN Raise("ValueError", <<"S","e","r","v","i","c","e","N","o","w"," ","i","n","s","t","a","n","c","e"," ","U","R","L"," ","i","s"," ","n","o","t"," ","s","e","t"," ","i","n"," ","e","n","v","i","r","o","n","m","e","n","t"," ","v","a","r","i","a","b","l","e","s",".">>)
    ELSE IF ~(Truthy(e.SERVICENOW_USERNAME) /\ Truthy(e.SERVICENOW_PASSWORD))
    THEN Raise("ValueError", <<"S","e","r","v","i","c","e","N","o","w"," ","c","r","e","d","e","n","t","i","a","l","s"," ","(","u","s","e","r","n","a","m","e","/","p","a","s","s","w","o","r","d"," ","o","r"," ","A","P","I"," ","t","o","k","e","n",")"," ","a","r","e"," ","n","o","t"," ","s","e","t"," ","i","n"," ","e","n","v","i","r","o","n","m","e","n","t"," ","v","a","r","i","a","b","l","e","s",".">>)
    ELSE Return(None)

\* the module-level checks: `if not SERVICENOW_INSTANCE: raise ValueError`,
\* `if not (USERNAME and PASSWORD) and not API_TOKEN: raise ValueError`
load(e) ==
    IF ~Truthy(e.SERVICENOW_INSTANCE)
    THEN Raise("ValueError", <<"S","e","r","v","i","c","e","N","o","w"," ","i","n","s","t","a","n","c","e"," ","U","R","L"," ","i","s"," ","n","o","t"," ","s","e","t"," ","i","n"," ","e","n","v","i","r","o","n","m","e","n","t"," ","v","a","r","i","a","b","l","e","s",".">>)
    ELSE IF ~(Truthy(e.SERVICENOW_USERNAME) /\ Truthy(e.SERVICENOW_PASSWORD))
            /\ ~Truthy(e.SERVICENOW_API_TOKEN)
    THEN Raise("ValueError", <<"S","e","r","v","i","c","e","N","o","w"," ","c","r","e","d","e","n","t","i","a","l","s"," ","(","u","s","e","r","n","a","m","e","/","p","a","s","s","w","o","r","d"," ","o","r"," ","A","P","I"," ","t","o","k","e","n",")"," ","a","r","e"," ","n","o","t"," ","s","e","t"," ","i","n"," ","e","n","v","i","r","o","n","m","e","n","t"," ","v","a","r","i","a","b","l","e","s",".">>)
    ELSE Return(None)

\* before the load: no instance, nothing sent
LoadInit ==
    /\ env \in Environments
    /\ self = None
    /\ pc = "loading"
    /\ op = "none"
    /\ args = <<>>
    /\ called = <<>>
    /\ sent = <<>>
    /\ resp = None
    /\ ret = None
    /\ store = <<>>
    /\ created_sys_id = None
    /\ creation = None
    /\ inflight = [c \in Callers |-> no_call]
    /\ traversal = no_traversal
    /\ assistant = no_assistant

\* the import of the facade module and, when it passes, the construction of
\* the shared instance
Load ==
    /\ pc = "loading"
    /\ LET loaded == load(env) IN
       IF loaded.raised
       THEN pc' = "failed" /\ ret' = loaded /\ self' = self
       ELSE pc' = "idle" /\ ret' = ret /\ self' = init(env, incident_table)
    /\ UNCHANGED <<env, op, args, called, sent, resp, store, created_sys_id, creation,
                   inflight, traversal, assistant>>

LoadNext == Load \/ GetIncident \/ GetCase \/ Continue

LoadSpec == LoadInit /\ [][LoadNext]_vars

\* the configuration the load rejects, as the claim states it
Misconfigured ==
    \/ ~Truthy(env.SERVICENOW_INSTANCE)
    \/ /\ ~Truthy(env.SERVICENOW_API_TOKEN)
       /\ ~Truthy(env.SERVICENOW_USERNAME) \/ ~Truthy(env.SERVICENOW_PASSWORD)

\* C21: loading the facade module fails with a configuration error, before
\* any instance exists and before any request is issued, if and only if the
\* instance host is unset or empty, or no token is set and the username or
\* the password is unset or empty; in every other configuration it succeeds.
C21_LoadFailsIff ==
    /\ pc = "loading" => self = None /\ sent = <<>>
    /\ pc = "failed" =>
          /\ Misconfigured
          /\ ret.raised /\ ret.exc.type = "ValueError"
          /\ self = None /\ sent = <<>>
    /\ pc \notin {"loading", "failed"} => ~Misconfigured /\ self = init(env, incident_table)

\* the load failed for an empty password alone, no token set
C21_Witness ==
    /\ pc = "failed"
    /\ Truthy(env.SERVICENOW_INSTANCE) /\ Truthy(env.SERVICENOW_USERNAME)
    /\ env.SERVICENOW_PASSWORD = Str(<<>>) /\ env.SERVICENOW_API_TOKEN = None

\* the load passed on a token alone and a request went out
C21_WitnessLoaded ==
    /\ Returned /\ Len(sent) = 1
    /\ env.SERVICENOW_USERNAME = None /\ Truthy(env.SERVICENOW_API_TOKEN)


---------------------------------------------------------------------------
(* The adapter's single-call functions: one facade call, rendered as text. *)

\* `x if x else None`
or_none(x) == IF Truthy(x) THEN x ELSE None

\* x.get(k) of a value received: only a dict has .get
get(x, k) ==
    IF x.t = "dict" THEN Return(Get(x, k, None))
    ELSE Raise("AttributeError", <<"o","b","j","e","c","t"," ","h","a","s"," ","n","o"," ","a","t","t","r","i","b","u","t","e"," ","'","g","e","t","'">>)

\* no handler: the exception leaves the function
reraised(text, error) == text

\* `except Exception as e: return error + str(e)` around a function's body
except_as_text(text, error) ==
    IF text.raised THEN Return(Str(error \o text.exc.msg)) ELSE text

\* the body shared by the adapter functions that make one facade call:
\* `try: result = <call>; if result.get("success"): return <done>;
\* else: return failed + result.get('error')`, and
\* `except Exception as e: return error + str(e)`
answered(name, a, made, Done(_), failed, error) ==
    LET text == IF made.out.raised THEN made.out
                ELSE IF made.out.value.success THEN Done(made.out.value)
                ELSE Return(Str(failed \o Format(made.out.value.error)))
    IN [called |-> <<[op |-> name, args |-> a, out |-> made.out]>>,
        sent |-> made.sent,
        out |-> except_as_text(text, error)]

\* "Incident <number> <done> successfully!" of the record in the envelope
incident_done(result, done) ==
    LET number == get(result.incident, "number") IN
    IF number.raised THEN number
    ELSE Return(Str(<<"I","n","c","i","d","e","n","t"," ">> \o Format(number.value) \o <<" ">> \o done
                    \o <<" ","s","u","c","c","e","s","s","f","u","l","l","y","!">>))

\* ServiceNowPlugin.create_incident
plugin_create_incident(e, s, summary, details, priority, urgency, impact, caller_id, assignment_group, category, r) ==
    LET a == [short_description |-> summary, description |-> details,
              priority |-> priority, urgency |-> urgency, impact |-> impact,
              caller_id |-> or_none(caller_id),
              assignment_group |-> or_none(assignment_group),
              category |-> or_none(category)]
        Done(result) ==
            Return(Str(<<"I","n","c","i","d","e","n","t"," ","c","r","e","a","t","e","d"," ","s","u","c","c","e","s","s","f","u","l","l","y","!","\n","I","n","c","i","d","e","n","t"," ","N","u","m","b","e","r",":"," ">>
                       \o Format(result.incident_number)
                       \o <<"\n","S","y","s"," ","I","D",":"," ">> \o Format(result.sys_id)
                       \o <<"\n","P","r","i","o","r","i","t","y",":"," ">> \o Format(result.priority)
                       \o <<"\n","U","r","g","e","n","c","y",":"," ">> \o Format(result.urgency)
                       \o <<"\n","I","m","p","a","c","t",":"," ">> \o Format(result.impact)
                       \o <<"\n","U","R","L",":"," ">> \o Format(result.url)))
    IN answered("create_incident", a,
                create_incident(e, s, summary, details, priority, urgency,
                                impact, a.caller_id, a.assignment_group, a.category,
                                None, None, r),
                Done, <<"F","a","i","l","e","d"," ","t","o"," ","c","r","e","a","t","e"," ","i","n","c","i","d","e","n","t",":"," ">>, <<"E","r","r","o","r"," ","c","r","e","a","t","i","n","g"," ","i","n","c","i","d","e","n","t",":"," ">>)

\* ServiceNowPlugin.resolve_incident
plugin_resolve_incident(s, incident_sys_id, resolution_notes, resolution_code, r) ==
    LET a == [incident_sys_id |-> incident_sys_id,
              resolution_notes |-> or_none(resolution_notes),
              resolution_code |-> or_none(resolution_code)]
        Done(result) == incident_done(result, <<"r","e","s","o","l","v","e","d">>)
    IN answered("resolve_incident", a,
                resolve_incident(s, incident_sys_id, a.resolution_notes,
                                 a.resolution_code, r),
                Done, <<"F","a","i","l","e","d"," ","t","o"," ","r","e","s","o","l","v","e"," ","i","n","c","i","d","e","n","t",":"," ">>, <<"E","r","r","o","r"," ","r","e","s","o","l","v","i","n","g"," ","i","n","c","i","d","e","n","t",":"," ">>)

\* ServiceNowPlugin.close_incident
plugin_close_incident(s, incident_sys_id, close_notes, close_code, r) ==
    LET a == [incident_sys_id |-> incident_sys_id, close_notes |-> or_none(close_notes),
              close_code |-> or_none(close_code)]
        Done(result) == incident_done(result, <<"c","l","o","s","e","d">>)
    IN answered("close_incident", a,
                close_incident(s, incident_sys_id, a.close_notes, a.close_code, r),
                Done, <<"F","a","i","l","e","d"," ","t","o"," ","c","l","o","s","e"," ","i","n","c","i","d","e","n","t",":"," ">>, <<"E","r","r","o","r"," ","c","l","o","s","i","n","g"," ","i","n","c","i","d","e","n","t",":"," ">>)

\* ServiceNowPlugin.assign_incident
plugin_assign_incident(s, incident_sys_id, assigned_to, assignment_group, r) ==
    LET a == [incident_sys_id |-> incident_sys_id, assigned_to |-> assigned_to,
              assignment_group |-> or_none(assignment_group)]
        Done(result) == incident_done(result, <<"a","s","s","i","g","n","e","d">>)
    IN answered("assign_incident", a,
                assign_incident(s, incident_sys_id, assigned_to, a.assignment_group, r),
                Done, <<"F","a","i","l","e","d"," ","t","o"," ","a","s","s","i","g","n"," ","i","n","c","i","d","e","n","t",":"," ">>, <<"E","r","r","o","r"," ","a","s","s","i","g","n","i","n","g"," ","i","n","c","i","d","e","n","t",":"," ">>)

\* a text parameter as the kernel passes it: empty or not
TextGiven == {Str(<<>>), Str(<<"x">>)}

PluginCreateIncident ==
    /\ pc = "idle"
    /\ \E d \in TextGiven, p \in {Str(<<>>), Str(<<"3">>)}, u \in {Str(<<>>), Str(<<"3">>)},
          i \in {Str(<<>>), Str(<<"3">>)}, c \in TextGiven, g \in TextGiven,
          k \in TextGiven, r \in Responses :
           InvokePlugin("plugin.create_incident",
                        [short_description |-> Str(<<"d","i","s","k">>), description |-> d,
                         priority |-> p, urgency |-> u, impact |-> i, caller_id |-> c,
                         assignment_group |-> g, category |-> k], r,
                        plugin_create_incident(env, self, Str(<<"d","i","s","k">>), d, p, u, i, c, g,
                                               k, r))

PluginResolveIncident ==
    /\ pc = "idle"
    /\ \E id \in SysIds, n \in TextGiven, c \in TextGiven, r \in Responses :
           InvokePlugin("plugin.resolve_incident",
                        [incident_sys_id |-> id, resolution_notes |-> n,
                         resolution_code |-> c], r,
                        plugin_resolve_incident(self, id, n, c, r))

PluginCloseIncident ==
    /\ pc = "idle"
    /\ \E id \in SysIds, n \in TextGiven, c \in TextGiven, r \in Responses :
           InvokePlugin("plugin.close_incident",
                        [incident_sys_id |-> id, close_notes |-> n, close_code |-> c], r,
                        plugin_close_incident(self, id, n, c, r))

PluginAssignIncident ==
    /\ pc = "idle"
    /\ \E id \in SysIds, t \in {Str(<<"u","1">>)}, g \in TextGiven, r \in Responses :
           InvokePlugin("plugin.assign_incident",
                        [incident_sys_id |-> id, assigned_to |-> t, assignment_group |-> g],
                        r, plugin_assign_incident(self, id, t, g, r))


\* the text "<label><x.get(key)>" for each labelled key of a record received
RECURSIVE described(_, _)
described(x, labelled) ==
    IF labelled = <<>> THEN <<>>
    ELSE labelled[1][1] \o Format(Get(x, labelled[1][2], None))
         \o described(x, Tail(labelled))

\* a heading and the labelled fields of x: x.get fails unless x is a dict
details(x, heading, labelled) ==
    IF x.t # "dict" THEN Raise("AttributeError", <<"o","b","j","e","c","t"," ","h","a","s"," ","n","o"," ","a","t","t","r","i","b","u","t","e"," ","'","g","e","t","'">>)
    ELSE Return(Str(heading \o described(x, labelled)))

\* no facade call made: the text returned before any
unasked(text) == [called |-> <<>>, sent |-> <<>>, out |-> Return(Str(text))]

\* ServiceNowPlugin.get_incident
\* get_incident looking at the number before the sys_id
get_incident_number_first(s, incident_number, incident_sys_id, r) ==
    IF Truthy(incident_number)
    THEN answered("get_incident_by_number", [incident_number |-> incident_number],
                  get_incident_by_number(s, incident_number, r),
                  LAMBDA result : Return(Str(<<"I","n","c","i","d","e","n","t"," ","D","e","t","a","i","l","s",":">>)),
                  <<"F","a","i","l","e","d"," ","t","o"," ","r","e","t","r","i","e","v","e"," ","i","n","c","i","d","e","n","t",":"," ">>, <<"E","r","r","o","r"," ","r","e","t","r","i","e","v","i","n","g"," ","i","n","c","i","d","e","n","t",":"," ">>)
    ELSE IF Truthy(incident_sys_id)
    THEN answered("get_incident", [incident_sys_id |-> incident_sys_id],
                  get_incident(s, incident_sys_id, r),
                  LAMBDA result : Return(Str(<<"I","n","c","i","d","e","n","t"," ","D","e","t","a","i","l","s",":">>)),
                  <<"F","a","i","l","e","d"," ","t","o"," ","r","e","t","r","i","e","v","e"," ","i","n","c","i","d","e","n","t",":"," ">>, <<"E","r","r","o","r"," ","r","e","t","r","i","e","v","i","n","g"," ","i","n","c","i","d","e","n","t",":"," ">>)
    ELSE unasked(<<"P","l","e","a","s","e"," ","p","r","o","v","i","d","e"," ","e","i","t","h","e","r"," ","a","n"," ","i","n","c","i","d","e","n","t","_","n","u","m","b","e","r"," ","o","r"," ","i","n","c","i","d","e","n","t","_","s","y","s","_","i","d">>)

plugin_get_incident(s, incident_number, incident_sys_id, r) ==
    LET Done(result) ==
            details(result.incident, <<"I","n","c","i","d","e","n","t"," ","D","e","t","a","i","l","s",":">>,
                    << <<<<"\n","N","u","m","b","e","r",":"," ">>, "number">>,
                       <<<<"\n","S","h","o","r","t"," ","D","e","s","c","r","i","p","t","i","o","n",":"," ">>, "short_description">>,
                       <<<<"\n","D","e","s","c","r","i","p","t","i","o","n",":"," ">>, "description">>,
                       <<<<"\n","S","t","a","t","e",":"," ">>, "state">>,
                       <<<<"\n","P","r","i","o","r","i","t","y",":"," ">>, "priority">>,
                       <<<<"\n","U","r","g","e","n","c","y",":"," ">>, "urgency">>,
                       <<<<"\n","I","m","p","a","c","t",":"," ">>, "impact">>,
                       <<<<"\n","C","a","l","l","e","r",":"," ">>, "caller_id">>,
                       <<<<"\n","A","s","s","i","g","n","e","d"," ","T","o",":"," ">>, "assigned_to">>,
                       <<<<"\n","A","s","s","i","g","n","m","e","n","t"," ","G","r","o","u","p",":"," ">>, "assignment_group">>,
                       <<<<"\n","C","a","t","e","g","o","r","y",":"," ">>, "category">>,
                       <<<<"\n","C","r","e","a","t","e","d",":"," ">>, "sys_created_on">>,
                       <<<<"\n","U","p","d","a","t","e","d",":"," ">>, "sys_updated_on">> >>)
    IN IF Truthy(incident_sys_id)
       THEN answered("get_incident", [incident_sys_id |-> incident_sys_id],
                     get_incident(s, incident_sys_id, r),
                     Done, <<"F","a","i","l","e","d"," ","t","o"," ","r","e","t","r","i","e","v","e"," ","i","n","c","i","d","e","n","t",":"," ">>, <<"E","r","r","o","r"," ","r","e","t","r","i","e","v","i","n","g"," ","i","n","c","i","d","e","n","t",":"," ">>)
       ELSE IF Truthy(incident_number)
       THEN answered("get_incident_by_number", [incident_number |-> incident_number],
                     get_incident_by_number(s, incident_number, r),
                     Done, <<"F","a","i","l","e","d"," ","t","o"," ","r","e","t","r","i","e","v","e"," ","i","n","c","i","d","e","n","t",":"," ">>, <<"E","r","r","o","r"," ","r","e","t","r","i","e","v","i","n","g"," ","i","n","c","i","d","e","n","t",":"," ">>)
       ELSE unasked(<<"P","l","e","a","s","e"," ","p","r","o","v","i","d","e"," ","e","i","t","h","e","r"," ","a","n"," ","i","n","c","i","d","e","n","t","_","n","u","m","b","e","r"," ","o","r"," ","i","n","c","i","d","e","n","t","_","s","y","s","_","i","d">>)

\* ServiceNowPlugin.add_incident_comment
plugin_add_incident_comment(s, incident_sys_id, comment, comment_type, r) ==
    LET Done(result) == Return(Str(<<"C","o","m","m","e","n","t"," ","a","d","d","e","d"," ","s","u","c","c","e","s","s","f","u","l","l","y"," ","t","o"," ","i","n","c","i","d","e","n","t",".">>)) IN
    answered("add_incident_comment",
             [incident_sys_id |-> incident_sys_id, comment |-> comment,
              comment_type |-> comment_type],
             add_incident_comment(s, incident_sys_id, comment, comment_type, r),
             Done, <<"F","a","i","l","e","d"," ","t","o"," ","a","d","d"," ","c","o","m","m","e","n","t",":"," ">>, <<"E","r","r","o","r"," ","a","d","d","i","n","g"," ","c","o","m","m","e","n","t",":"," ">>)

\* ServiceNowPlugin.list_servicenow_functions: a fixed text
list_servicenow_functions ==
    unasked(<<"I","N","C","I","D","E","N","T"," ","F","U","N","C","T","I","O","N","S"," ","(","I","n","t","e","r","n","a","l"," ","I","T"," ","S","u","p","p","o","r","t",")",":","\n","-"," ","c","r","e","a","t","e","_","i","n","c","i","d","e","n","t",":"," ","C","r","e","a","t","e"," ","a"," ","n","e","w"," ","I","T"," ","i","n","c","i","d","e","n","t","\n","-"," ","g","e","t","_","i","n","c","i","d","e","n","t",":"," ","G","e","t"," ","i","n","c","i","d","e","n","t"," ","d","e","t","a","i","l","s"," ","b","y"," ","n","u","m","b","e","r"," ","o","r"," ","s","y","s","_","i","d","\n","-"," ","q","u","e","r","y","_","o","p","e","n","_","i","n","c","i","d","e","n","t","s",":"," ","G","e","t"," ","o","p","e","n"," ","i","n","c","i","d","e","n","t","s"," ","W","I","T","H"," ","P","A","G","I","N","G"," ","(","p","a","g","e","_","n","u","m","b","e","r",","," ","p","a","g","e","_","s","i","z","e",")","\n","-"," ","q","u","e","r","y","_","h","i","g","h","_","p","r","i","o","r","i","t","y","_","i","n","c","i","d","e","n","t","s",":"," ","G","e","t"," ","h","i","g","h"," ","p","r","i","o","r","i","t","y"," ","i","n","c","i","d","e","n","t","s"," ","W","I","T","H"," ","P","A","G","I","N","G","\n","-"," ","a","d","d","_","i","n","c","i","d","e","n","t","_","c","o","m","m","e","n","t",":"," ","A","d","d"," ","c","o","m","m","e","n","t"," ","t","o"," ","i","n","c","i","d","e","n","t","\n","-"," ","r","e","s","o","l","v","e","_","i","n","c","i","d","e","n","t",":"," ","R","e","s","o","l","v","e"," ","a","n"," ","i","n","c","i","d","e","n","t","\n","-"," ","c","l","o","s","e","_","i","n","c","i","d","e","n","t",":"," ","C","l","o","s","e"," ","a","n"," ","i","n","c","i","d","e","n","t","\n","-"," ","a","s","s","i","g","n","_","i","n","c","i","d","e","n","t",":"," ","A","s","s","i","g","n"," ","i","n","c","i","d","e","n","t"," ","t","o"," ","t","e","c","h","n","i","c","i","a","n","\n","-"," ","s","e","a","r","c","h","_","i","n","c","i","d","e","n","t","s",":"," ","S","e","a","r","c","h"," ","i","n","c","i","d","e","n","t","s"," ","b","y"," ","t","e","x","t","\n","\n","P","A","G","I","N","G"," ","D","E","F","A","U","L","T","S",":","\n","-"," ","D","e","f","a","u","l","t"," ","p","a","g","e"," ","s","i","z","e",":"," ","2","0","\n","-"," ","U","s","e"," ","p","a","g","e","_","n","u","m","b","e","r","=","'","1","'"," ","f","o","r"," ","f","i","r","s","t"," ","p","a","g","e",","," ","p","a","g","e","_","n","u","m","b","e","r","=","'","2","'"," ","f","o","r"," ","s","e","c","o","n","d"," ","p","a","g","e",","," ","e","t","c",".","\n","-"," ","U","s","e"," ","p","a","g","e","_","s","i","z","e","=","'","2","0","'"," ","o","r"," ","s","p","e","c","i","f","y"," ","d","i","f","f","e","r","e","n","t"," ","s","i","z","e">>)

\* the marks that begin the texts of test_servicenow_connection
check_mark == <<"(check mark)">>
cross_mark == <<"(cross mark)">>

\* ServiceNowPlugin.test_servicenow_connection: query_incidents(limit=1)
test_servicenow_connection(s, r) ==
    LET made == query_incidents(s, None, 1, 0, None, None, r)
        sample(incidents) ==
            LET incident == first_of(incidents) IN
            IF incident.raised THEN incident
            ELSE IF incident.value.t # "dict"
            THEN Raise("AttributeError", <<"o","b","j","e","c","t"," ","h","a","s"," ","n","o"," ","a","t","t","r","i","b","u","t","e"," ","'","g","e","t","'">>)
            ELSE Return(Str(check_mark \o <<" ","S","e","r","v","i","c","e","N","o","w"," ","C","o","n","n","e","c","t","i","o","n"," ","T","e","s","t",":"," ","S","U","C","C","E","S","S","\n","S","a","m","p","l","e"," ","i","n","c","i","d","e","n","t",":"," ">>
                            \o Format(Get(incident.value, "number", None)) \o <<" ","-"," ">>
                            \o Format(Get(incident.value, "short_description", None))
                            \o <<"\n","F","o","u","n","d"," ">> \o decimal(Len(incidents.v))
                            \o <<" ","i","n","c","i","d","e","n","t","(","s",")"," ","i","n"," ","t","e","s","t"," ","q","u","e","r","y">>))
        text == IF made.out.raised THEN made.out
                ELSE IF made.out.value.success
                THEN IF Truthy(made.out.value.incidents)
                     THEN sample(made.out.value.incidents)
                     ELSE Return(Str(check_mark
                                     \o <<" ","S","e","r","v","i","c","e","N","o","w"," ","C","o","n","n","e","c","t","i","o","n",":"," ","S","U","C","C","E","S","S"," ","(","b","u","t"," ","n","o"," ","i","n","c","i","d","e","n","t","s"," ","f","o","u","n","d",")">>))
                ELSE Return(Str(cross_mark \o <<" ","S","e","r","v","i","c","e","N","o","w"," ","C","o","n","n","e","c","t","i","o","n"," ","T","e","s","t",":"," ","F","A","I","L","E","D","\n","E","r","r","o","r",":"," ">>
                                \o Format(made.out.value.error)))
    IN [called |-> <<[op |-> "query_incidents",
                      args |-> [query |-> None, limit |-> 1, offset |-> 0,
                                order_by |-> None],
                      out |-> made.out]>>,
        sent |-> made.sent,
        out |-> IF text.raised
                THEN Return(Str(cross_mark \o <<" ","S","e","r","v","i","c","e","N","o","w"," ","C","o","n","n","e","c","t","i","o","n"," ","T","e","s","t",":"," ","E","R","R","O","R","\n","D","e","t","a","i","l","s",":"," ">>
                                \o text.exc.msg \o <<" ","|"," ","T","y","p","e",":"," ">> \o type_name(text.exc.type)))
                ELSE text]

PluginGetIncident ==
    /\ pc = "idle"
    /\ \E n \in {Str(<<>>), Str(<<"I","N","C","1">>)}, id \in {Str(<<>>), Str(<<"i","d","1">>)},
          r \in Responses :
           InvokePlugin("plugin.get_incident",
                        [incident_number |-> n, incident_sys_id |-> id], r,
                        plugin_get_incident(self, n, id, r))

PluginAddIncidentComment ==
    /\ pc = "idle"
    /\ \E id \in SysIds, ct \in {"work_notes", "comments"}, r \in Responses :
           InvokePlugin("plugin.add_incident_comment",
                        [incident_sys_id |-> id, comment |-> Str(<<"x">>),
                         comment_type |-> ct], r,
                        plugin_add_incident_comment(self, id, Str(<<"x">>), ct, r))

ListServiceNowFunctions ==
    /\ pc = "idle"
    /\ InvokePlugin("plugin.list_servicenow_functions", <<>>, None,
                    list_servicenow_functions)

TestServiceNowConnection ==
    /\ pc = "idle"
    /\ \E r \in Responses :
           InvokePlugin("plugin.test_servicenow_connection", <<>>, r,
                        test_servicenow_connection(self, r))


---------------------------------------------------------------------------
(* The tools: each _run constructs its own instance on the incident table, *)
(* makes one facade call and renders the envelope as text.                 *)

\* ServiceNowCreateCaseTool._run
servicenow_create_case(e, summary, details_, priority, contact, account, category, r) ==
    LET Done(result) ==
            Return(Str(<<"C","a","s","e"," ","c","r","e","a","t","e","d"," ","s","u","c","c","e","s","s","f","u","l","l","y","!","\n","C","a","s","e"," ","N","u","m","b","e","r",":"," ">>
                       \o Format(result.case_number)
                       \o <<"\n","S","y","s"," ","I","D",":"," ">> \o Format(result.sys_id)
                       \o <<"\n","P","r","i","o","r","i","t","y",":"," ">> \o Format(result.priority)
                       \o <<"\n","S","t","a","t","e",":"," ">> \o Format(result.state)
                       \o <<"\n","U","R","L",":"," ">> \o Format(result.url)))
    IN answered("create_case",
                [short_description |-> summary, description |-> details_,
                 priority |-> priority, contact |-> contact, account |-> account,
                 category |-> category],
                create_case(e, init(e, incident_table), summary, details_, priority,
                            contact, account, category, None, r),
                Done, <<"F","a","i","l","e","d"," ","t","o"," ","c","r","e","a","t","e"," ","c","a","s","e",":"," ">>, <<"E","r","r","o","r"," ","c","r","e","a","t","i","n","g"," ","c","a","s","e",":"," ">>)

\* ServiceNowGetCaseTool._run
servicenow_get_case(e, case_sys_id, case_number, r) ==
    LET Done(result) ==
            details(result.case, <<"C","a","s","e"," ","D","e","t","a","i","l","s",":">>,
                    << <<<<"\n","N","u","m","b","e","r",":"," ">>, "number">>,
                       <<<<"\n","S","h","o","r","t"," ","D","e","s","c","r","i","p","t","i","o","n",":"," ">>, "short_description">>,
                       <<<<"\n","D","e","s","c","r","i","p","t","i","o","n",":"," ">>, "description">>,
                       <<<<"\n","S","t","a","t","e",":"," ">>, "state">>,
                       <<<<"\n","P","r","i","o","r","i","t","y",":"," ">>, "priority">>,
                       <<<<"\n","C","o","n","t","a","c","t",":"," ">>, "contact">>,
                       <<<<"\n","A","c","c","o","u","n","t",":"," ">>, "account">>,
                       <<<<"\n","A","s","s","i","g","n","e","d"," ","T","o",":"," ">>, "assigned_to">>,
                       <<<<"\n","C","r","e","a","t","e","d",":"," ">>, "sys_created_on">>,
                       <<<<"\n","U","p","d","a","t","e","d",":"," ">>, "sys_updated_on">> >>)
        operations == init(e, incident_table)
    IN IF Truthy(case_sys_id)
       THEN answered("get_case", [case_sys_id |-> case_sys_id],
                     get_case(operations, case_sys_id, r),
                     Done, <<"F","a","i","l","e","d"," ","t","o"," ","r","e","t","r","i","e","v","e"," ","c","a","s","e",":"," ">>, <<"E","r","r","o","r"," ","r","e","t","r","i","e","v","i","n","g"," ","c","a","s","e",":"," ">>)
       ELSE IF Truthy(case_number)
       THEN answered("get_case_by_number", [case_number |-> case_number],
                     get_case_by_number(operations, case_number, r),
                     Done, <<"F","a","i","l","e","d"," ","t","o"," ","r","e","t","r","i","e","v","e"," ","c","a","s","e",":"," ">>, <<"E","r","r","o","r"," ","r","e","t","r","i","e","v","i","n","g"," ","c","a","s","e",":"," ">>)
       ELSE unasked(<<"E","r","r","o","r",":"," ","M","u","s","t"," ","p","r","o","v","i","d","e"," ","e","i","t","h","e","r"," ","c","a","s","e","_","s","y","s","_","i","d"," ","o","r"," ","c","a","s","e","_","n","u","m","b","e","r">>)

\* the fields of an update in the order the tool tests them, with their text
UpdateFields ==
    << <<"state", <<"s","t","a","t","e">>>>, <<"priority", <<"p","r","i","o","r","i","t","y">>>>,
       <<"short_description", <<"s","h","o","r","t","_","d","e","s","c","r","i","p","t","i","o","n">>>>,
       <<"description", <<"d","e","s","c","r","i","p","t","i","o","n">>>>, <<"assigned_to", <<"a","s","s","i","g","n","e","d","_","t","o">>>> >>

\* ServiceNowUpdateCaseTool._run: given is the record of the five optional
\* arguments
\* an update of all five fields, supplied or not
update_case_all_fields(e, case_sys_id, given, r) ==
    answered("update_case", [case_sys_id |-> case_sys_id, updates |-> Dict(given)],
             update_case(init(e, incident_table), case_sys_id, Dict(given), r),
             LAMBDA result : Return(Str(<<"C","a","s","e"," ","u","p","d","a","t","e","d"," ","s","u","c","c","e","s","s","f","u","l","l","y","!">>)),
             <<"F","a","i","l","e","d"," ","t","o"," ","u","p","d","a","t","e"," ","c","a","s","e",":"," ">>, <<"E","r","r","o","r"," ","u","p","d","a","t","i","n","g"," ","c","a","s","e",":"," ">>)

servicenow_update_case(e, case_sys_id, given, r) ==
    LET supplied == SelectSeq(UpdateFields, LAMBDA f : Truthy(given[f[1]]))
        updates == [k \in {supplied[i][1] : i \in 1..Len(supplied)} |-> given[k]]
        Done(result) ==
            LET number == get(result.case, "number") IN
            IF number.raised THEN number
            ELSE Return(Str(<<"C","a","s","e"," ","u","p","d","a","t","e","d"," ","s","u","c","c","e","s","s","f","u","l","l","y","!","\n","C","a","s","e"," ","N","u","m","b","e","r",":"," ">>
                            \o Format(number.value) \o <<"\n","U","p","d","a","t","e","d"," ","F","i","e","l","d","s",":"," ">>
                            \o join(<<","," ">>, [i \in 1..Len(supplied) |-> supplied[i][2]])))
    IN IF supplied = <<>>
       THEN unasked(<<"N","o"," ","u","p","d","a","t","e","s"," ","p","r","o","v","i","d","e","d","."," ","P","l","e","a","s","e"," ","s","p","e","c","i","f","y"," ","a","t"," ","l","e","a","s","t"," ","o","n","e"," ","f","i","e","l","d"," ","t","o"," ","u","p","d","a","t","e",".">>)
       ELSE answered("update_case", [case_sys_id |-> case_sys_id, updates |-> Dict(updates)],
                     update_case(init(e, incident_table), case_sys_id, Dict(updates), r),
                     Done, <<"F","a","i","l","e","d"," ","t","o"," ","u","p","d","a","t","e"," ","c","a","s","e",":"," ">>, <<"E","r","r","o","r"," ","u","p","d","a","t","i","n","g"," ","c","a","s","e",":"," ">>)

\* one entry of the list of cases
RECURSIVE case_entries(_)
case_entries(cases) ==
    IF cases = <<>> THEN <<>>
    ELSE described(Head(cases),
                   << <<<<"\n","-"," ","C","a","s","e"," ">>, "number">>, <<<<":"," ">>, "short_description">>,
                      <<<<"\n"," "," ","P","r","i","o","r","i","t","y",":"," ">>, "priority">>, <<<<","," ","S","t","a","t","e",":"," ">>, "state">>,
                      <<<<"\n"," "," ","S","y","s"," ","I","D",":"," ">>, "sys_id">> >>)
         \o case_entries(Tail(cases))

\* ServiceNowQueryCasesTool._run
\* every query_type taken for 'custom', the query not looked at
query_cases_any_type(e, query_type, query, search_text, contact_sys_id, account_sys_id, limit, r) ==
    answered("query_cases", [query |-> query, limit |-> limit],
             query_cases(init(e, incident_table), query, limit, 0, None, None, r),
             LAMBDA result : Return(Str(<<"N","o"," ","c","a","s","e","s"," ","f","o","u","n","d"," ","m","a","t","c","h","i","n","g"," ","t","h","e"," ","q","u","e","r","y",".">>)),
             <<"F","a","i","l","e","d"," ","t","o"," ","q","u","e","r","y"," ","c","a","s","e","s",":"," ">>, <<"E","r","r","o","r"," ","q","u","e","r","y","i","n","g"," ","c","a","s","e","s",":"," ">>)

servicenow_query_cases(e, query_type, query, search_text, contact_sys_id, account_sys_id, limit, r) ==
    LET operations == init(e, incident_table)
        Done(result) ==
            IF result.count = 0 THEN Return(Str(<<"N","o"," ","c","a","s","e","s"," ","f","o","u","n","d"," ","m","a","t","c","h","i","n","g"," ","t","h","e"," ","q","u","e","r","y",".">>))
            ELSE IF result.cases.t # "list"
                    \/ \E i \in 1..Len(result.cases.v) : result.cases.v[i].t # "dict"
            THEN Raise("AttributeError", <<"o","b","j","e","c","t"," ","h","a","s"," ","n","o"," ","a","t","t","r","i","b","u","t","e"," ","'","g","e","t","'">>)
            ELSE Return(Str(<<"F","o","u","n","d"," ">> \o decimal(result.count) \o <<" ","c","a","s","e","(","s",")",":","\n">>
                            \o case_entries(result.cases.v)))
        asked(name, a, made) ==
            answered(name, a, made, Done, <<"F","a","i","l","e","d"," ","t","o"," ","q","u","e","r","y"," ","c","a","s","e","s",":"," ">>,
                     <<"E","r","r","o","r"," ","q","u","e","r","y","i","n","g"," ","c","a","s","e","s",":"," ">>)
    IN CASE query_type = Str(<<"o","p","e","n">>) ->
              asked("get_open_cases", [limit |-> limit], get_open_cases(operations, limit, r))
         [] query_type = Str(<<"h","i","g","h","_","p","r","i","o","r","i","t","y">>) ->
              asked("get_high_priority_cases", [limit |-> limit],
                    get_high_priority_cases(operations, limit, r))
         [] query_type = Str(<<"c","u","s","t","o","m">>) ->
              IF ~Truthy(query)
              THEN unasked(<<"E","r","r","o","r",":"," ","'","q","u","e","r","y","'"," ","p","a","r","a","m","e","t","e","r"," ","r","e","q","u","i","r","e","d"," ","f","o","r"," ","c","u","s","t","o","m"," ","q","u","e","r","y"," ","t","y","p","e">>)
              ELSE asked("query_cases", [query |-> query, limit |-> limit],
                         query_cases(operations, query, limit, 0, None, None, r))
         [] query_type = Str(<<"s","e","a","r","c","h">>) ->
              IF ~Truthy(search_text)
              THEN unasked(<<"E","r","r","o","r",":"," ","'","s","e","a","r","c","h","_","t","e","x","t","'"," ","p","a","r","a","m","e","t","e","r"," ","r","e","q","u","i","r","e","d"," ","f","o","r"," ","s","e","a","r","c","h"," ","q","u","e","r","y"," ","t","y","p","e">>)
              ELSE asked("search_cases_by_text", [search_text |-> search_text, limit |-> limit],
                         search_cases_by_text(operations, search_text, None, limit, r))
         [] query_type = Str(<<"b","y","_","c","o","n","t","a","c","t">>) ->
              IF ~Truthy(contact_sys_id)
              THEN unasked(<<"E","r","r","o","r",":"," ","'","c","o","n","t","a","c","t","_","s","y","s","_","i","d","'"," ","p","a","r","a","m","e","t","e","r"," ","r","e","q","u","i","r","e","d"," ","f","o","r"," ","b","y","_","c","o","n","t","a","c","t"," ","q","u","e","r","y"," ","t","y","p","e">>)
              ELSE asked("get_cases_by_contact",
                         [contact_sys_id |-> contact_sys_id, limit |-> limit],
                         get_cases_by_contact(operations, contact_sys_id, limit, r))
         [] query_type = Str(<<"b","y","_","a","c","c","o","u","n","t">>) ->
              IF ~Truthy(account_sys_id)
              THEN unasked(<<"E","r","r","o","r",":"," ","'","a","c","c","o","u","n","t","_","s","y","s","_","i","d","'"," ","p","a","r","a","m","e","t","e","r"," ","r","e","q","u","i","r","e","d"," ","f","o","r"," ","b","y","_","a","c","c","o","u","n","t"," ","q","u","e","r","y"," ","t","y","p","e">>)
              ELSE asked("get_cases_by_account",
                         [account_sys_id |-> account_sys_id, limit |-> limit],
                         get_cases_by_account(operations, account_sys_id, limit, r))
         [] OTHER -> unasked(<<"E","r","r","o","r",":"," ","U","n","k","n","o","w","n"," ","q","u","e","r","y","_","t","y","p","e"," ","'">> \o Format(query_type) \o <<"'">>)

\* ServiceNowAddCommentTool._run
servicenow_add_comment(e, case_sys_id, comment, comment_type, r) ==
    LET Done(result) == Return(Str(<<"C","o","m","m","e","n","t"," ","a","d","d","e","d"," ","s","u","c","c","e","s","s","f","u","l","l","y"," ","t","o"," ","c","a","s","e",".">>)) IN
    answered("add_case_comment",
             [case_sys_id |-> case_sys_id, comment |-> comment,
              comment_type |-> comment_type],
             add_case_comment(init(e, incident_table), case_sys_id, comment, comment_type, r),
             Done, <<"F","a","i","l","e","d"," ","t","o"," ","a","d","d"," ","c","o","m","m","e","n","t",":"," ">>, <<"E","r","r","o","r"," ","a","d","d","i","n","g"," ","c","o","m","m","e","n","t",":"," ">>)

\* ServiceNowCloseCaseTool._run
servicenow_close_case(e, case_sys_id, resolution_notes, close_code, r) ==
    LET Done(result) ==
            LET number == get(result.case, "number") IN
            IF number.raised THEN number
            ELSE Return(Str(<<"C","a","s","e"," ","c","l","o","s","e","d"," ","s","u","c","c","e","s","s","f","u","l","l","y","!","\n","C","a","s","e"," ","N","u","m","b","e","r",":"," ">>
                            \o Format(number.value) \o <<"\n","S","t","a","t","e",":"," ","R","e","s","o","l","v","e","d">>))
    IN answered("close_case",
                [case_sys_id |-> case_sys_id, resolution_notes |-> resolution_notes,
                 close_code |-> close_code],
                close_case(init(e, incident_table), case_sys_id, resolution_notes,
                           close_code, r),
                Done, <<"F","a","i","l","e","d"," ","t","o"," ","c","l","o","s","e"," ","c","a","s","e",":"," ">>, <<"E","r","r","o","r"," ","c","l","o","s","i","n","g"," ","c","a","s","e",":"," ">>)

\* ServiceNowAssignCaseTool._run
servicenow_assign_case(e, case_sys_id, assigned_to, assignment_group, r) ==
    LET Done(result) ==
            details(result.case, <<"C","a","s","e"," ","a","s","s","i","g","n","e","d"," ","s","u","c","c","e","s","s","f","u","l","l","y","!">>,
                    << <<<<"\n","C","a","s","e"," ","N","u","m","b","e","r",":"," ">>, "number">>,
                       <<<<"\n","A","s","s","i","g","n","e","d"," ","T","o",":"," ">>, "assigned_to">> >>)
    IN answered("assign_case",
                [case_sys_id |-> case_sys_id, assigned_to |-> assigned_to,
                 assignment_group |-> assignment_group],
                assign_case(init(e, incident_table), case_sys_id, assigned_to,
                            assignment_group, r),
                Done, <<"F","a","i","l","e","d"," ","t","o"," ","a","s","s","i","g","n"," ","c","a","s","e",":"," ">>, <<"E","r","r","o","r"," ","a","s","s","i","g","n","i","n","g"," ","c","a","s","e",":"," ">>)


\* an optional text argument of a tool: left out, empty, or given
OptionalText == {None, Str(<<>>), Str(<<"x">>)}

RunCreateCase ==
    /\ pc = "idle"
    /\ \E d \in OptionalText, c \in {None, Str(<<"x">>)}, r \in Responses :
           InvokePlugin("servicenow_create_case",
                        [short_description |-> Str(<<"d","i","s","k">>), description |-> d,
                         priority |-> Str(<<"3">>), contact |-> c, account |-> None,
                         category |-> None], r,
                        servicenow_create_case(env, Str(<<"d","i","s","k">>), d, Str(<<"3">>), c, None,
                                               None, r))

RunGetCase ==
    /\ pc = "idle"
    /\ \E id \in {None, Str(<<>>), Str(<<"i","d","1">>)}, n \in {None, Str(<<>>), Str(<<"I","N","C","1">>)},
          r \in Responses :
           InvokePlugin("servicenow_get_case", [case_sys_id |-> id, case_number |-> n], r,
                        servicenow_get_case(env, id, n, r))

RunUpdateCase ==
    /\ pc = "idle"
    /\ \E st \in {None, Str(<<"2">>)}, p \in {None, Str(<<>>), Str(<<"1">>)},
          sd \in {None, Str(<<"n","e","w">>)}, d \in {None, Str(<<>>)}, t \in {None, Str(<<"u","1">>)},
          r \in Responses :
           LET given == [state |-> st, priority |-> p, short_description |-> sd,
                         description |-> d, assigned_to |-> t]
           IN InvokePlugin("servicenow_update_case",
                           [case_sys_id |-> Str(<<"i","d","1">>)] @@ given, r,
                           servicenow_update_case(env, Str(<<"i","d","1">>), given, r))

\* the query types of the tool and two that are none of them
QueryTypes ==
    {Str(<<"o","p","e","n">>), Str(<<"h","i","g","h","_","p","r","i","o","r","i","t","y">>), Str(<<"c","u","s","t","o","m">>), Str(<<"s","e","a","r","c","h">>),
     Str(<<"b","y","_","c","o","n","t","a","c","t">>), Str(<<"b","y","_","a","c","c","o","u","n","t">>), Str(<<"c","l","o","s","e","d">>), Str(<<>>)}

RunQueryCases ==
    /\ pc = "idle"
    /\ \E qt \in QueryTypes, q \in {None, Str(<<>>), Str(<<"s","t","a","t","e","=","1">>)},
          x \in OptionalText, l \in {1, 2}, r \in Responses :
           InvokePlugin("servicenow_query_cases",
                        [query_type |-> qt, query |-> q, search_text |-> x,
                         contact_sys_id |-> x, account_sys_id |-> x, limit |-> l], r,
                        servicenow_query_cases(env, qt, q, x, x, x, l, r))

RunAddComment ==
    /\ pc = "idle"
    /\ \E ct \in {"work_notes", "comments"}, r \in Responses :
           InvokePlugin("servicenow_add_comment",
                        [case_sys_id |-> Str(<<"i","d","1">>), comment |-> Str(<<"x">>),
                         comment_type |-> ct], r,
                        servicenow_add_comment(env, Str(<<"i","d","1">>), Str(<<"x">>), ct, r))

RunCloseCase ==
    /\ pc = "idle"
    /\ \E n \in OptionalText, c \in {None, Str(<<"x">>)}, r \in Responses :
           InvokePlugin("servicenow_close_case",
                        [case_sys_id |-> Str(<<"i","d","1">>), resolution_notes |-> n,
                         close_code |-> c], r,
                        servicenow_close_case(env, Str(<<"i","d","1">>), n, c, r))

RunAssignCase ==
    /\ pc = "idle"
    /\ \E g \in OptionalText, r \in Responses :
           InvokePlugin("servicenow_assign_case",
                        [case_sys_id |-> Str(<<"i","d","1">>), assigned_to |-> Str(<<"u","1">>),
                         assignment_group |-> g], r,
                        servicenow_assign_case(env, Str(<<"i","d","1">>), Str(<<"u","1">>), g, r))

\* every function of the plugin and every tool
AdapterNext ==
    \/ ListServiceNowFunctions \/ TestServiceNowConnection
    \/ PluginCreateIncident \/ PluginGetIncident
    \/ QueryOpenIncidents \/ QueryHighPriorityIncidents
    \/ PluginAddIncidentComment \/ PluginResolveIncident \/ PluginCloseIncident
    \/ PluginAssignIncident \/ SearchIncidents
    \/ RunCreateCase \/ RunGetCase \/ RunUpdateCase \/ RunQueryCases
    \/ RunAddComment \/ RunCloseCase \/ RunAssignCase
    \/ Continue

AdapterSpec == Init /\ [][AdapterNext]_vars

\* ---- the empty string as 'absent' (C22) ----

AdapterMutations ==
    {"plugin.create_incident", "plugin.resolve_incident", "plugin.close_incident",
     "plugin.assign_incident"}

\* the parameters of the adapter functions that are always handed on as given
AlwaysSent == {"priority", "urgency", "impact"}

\* the parameters the adapter or the facade tests before use
SentIfGiven ==
    {"description", "caller_id", "assignment_group", "category", "resolution_notes",
     "resolution_code", "close_notes", "close_code"}

\* in the payload sent, no field of params belongs to a parameter received as
\* the empty string
EmptyIsAbsent(params) ==
    (Returned /\ op \in AdapterMutations /\ Len(sent) = 1) =>
        \A k \in params \cap DOMAIN args :
            args[k] = Str(<<>>) => k \notin Keys(sent[1].json)

\* C22 as stated: in the adapter's create_incident, resolve_incident,
\* close_incident and assign_incident every text parameter received as the
\* empty string (description, priority, urgency, impact, caller_id,
\* assignment_group, category, resolution_notes, resolution_code,
\* close_notes, close_code) is absent from the payload sent.
C22_EmptyMeansAbsent == EmptyIsAbsent(AlwaysSent \cup SentIfGiven)

\* the same of the parameters other than priority, urgency and impact
C22_EmptyMeansAbsentWhenTested == EmptyIsAbsent(SentIfGiven)

\* an empty priority went out as a field of the payload
C22_EmptyPrioritySent ==
    /\ Returned /\ op = "plugin.create_incident" /\ Len(sent) = 1
    /\ args.priority = Str(<<>>) /\ args.description = Str(<<>>)
    /\ "priority" \in Keys(sent[1].json) /\ sent[1].json.v["priority"] = Str(<<>>)
    /\ "description" \notin Keys(sent[1].json)


\* ---- no error leaves the adapter (C23) ----

\* the one facade call of the invocation gave a failure envelope
FacadeFailed == Len(called) = 1 /\ ~called[1].out.raised /\ ~called[1].out.value.success

\* the one facade call of the invocation raised
FacadeRaised == Len(called) = 1 /\ called[1].out.raised

\* the text t has the text u in it
Within(u, t) == \E i \in 0..(Len(t) - Len(u)) : SubSeq(t, i + 1, i + Len(u)) = u

\* a failure envelope is rendered as `failed` then its error message, and an
\* exception of the facade as a text that begins with `error` and has the
\* exception's message
RenderedAs(failed, error) ==
    /\ FacadeFailed =>
          /\ StartsWith(ret.value.v, failed)
          /\ SubSeq(ret.value.v, Len(ret.value.v) - Len(called[1].out.value.error.v) + 1,
                    Len(ret.value.v)) = called[1].out.value.error.v
    /\ FacadeRaised =>
          /\ StartsWith(ret.value.v, error)
          /\ Within(called[1].out.exc.msg, ret.value.v)

\* the function returned a text
ReturnedText == ~ret.raised /\ ret.value.t = "str"

\* C23 as stated: every function of the plugin and every tool returns a text
\* for every input and every facade outcome and never raises; a failure
\* envelope is rendered as a 'Failed to ...' line with the error message, an
\* exception raised in the facade as an 'Error ...' line.
C23_TextAlways ==
    Returned => ReturnedText /\ RenderedAs(<<"F","a","i","l","e","d"," ","t","o"," ">>, <<"E","r","r","o","r"," ">>)

\* the same, test_servicenow_connection rendering the two with its own
\* 'Connection Test: FAILED' and 'Connection Test: ERROR' lines
C23_TextAlwaysOwnLines ==
    Returned =>
        /\ ReturnedText
        /\ IF op = "plugin.test_servicenow_connection"
           THEN RenderedAs(cross_mark \o <<" ","S","e","r","v","i","c","e","N","o","w"," ","C","o","n","n","e","c","t","i","o","n"," ","T","e","s","t",":"," ","F","A","I","L","E","D","\n","E","r","r","o","r",":"," ">>,
                           cross_mark \o <<" ","S","e","r","v","i","c","e","N","o","w"," ","C","o","n","n","e","c","t","i","o","n"," ","T","e","s","t",":"," ","E","R","R","O","R","\n","D","e","t","a","i","l","s",":"," ">>)
           ELSE RenderedAs(<<"F","a","i","l","e","d"," ","t","o"," ">>, <<"E","r","r","o","r"," ">>)

\* a tool rendered an exception raised inside the facade
C23_Witness ==
    /\ Returned /\ op = "servicenow_query_cases" /\ FacadeRaised
    /\ StartsWith(ret.value.v, <<"E","r","r","o","r"," ","q","u","e","r","y","i","n","g"," ","c","a","s","e","s",":"," ">>)

\* the plugin rendered a failure envelope
C23_WitnessFailed ==
    /\ Returned /\ op = "plugin.get_incident" /\ FacadeFailed
    /\ StartsWith(ret.value.v, <<"F","a","i","l","e","d"," ","t","o"," ","r","e","t","r","i","e","v","e"," ","i","n","c","i","d","e","n","t",":"," ">>)


---------------------------------------------------------------------------
(* A reader follows the paging guidance of query_open_incidents against    *)
(* the store: page 1 first, the next page whenever the text of a page says *)
(* that more incidents are available.                                      *)

MaxIncidents == 4
MaxPageSize == 3

\* incident i as the store holds it
stored_incident(s, i, state) ==
    [url |-> table_url(s, incident_table) \o <<"/","i","d">> \o decimal(i),
     fields |-> ("sys_id" :> Str(<<"i","d">> \o decimal(i)))
                @@ ("number" :> Str(<<"I","N","C">> \o decimal(i)))
                @@ ("short_description" :> Str(<<"d","i","s","k">>))
                @@ ("state" :> Str(state))]

\* n open incidents, after a closed one when `closed`
incidents_stored(s, n, closed) ==
    (IF closed THEN <<stored_incident(s, 0, <<"7">>)>> ELSE <<>>)
    \o [i \in 1..n |-> stored_incident(s, i, <<"1">>)]

TraversalInit ==
    /\ env \in Envs
    /\ self = init(env, incident_table)
    /\ pc = "idle"
    /\ op = "none"
    /\ args = <<>>
    /\ called = <<>>
    /\ sent = <<>>
    /\ resp = None
    /\ ret = None
    /\ \E n \in 0..MaxIncidents, closed \in BOOLEAN :
           store = incidents_stored(self, n, closed)
    /\ created_sys_id = None
    /\ creation = None
    /\ inflight = [c \in Callers |-> no_call]
    /\ \E size \in 1..MaxPageSize :
           traversal = [size |-> size, page |-> 1, pages |-> <<>>, done |-> FALSE]
    /\ assistant = no_assistant

\* the guidance that a page's text ends with when has_more was true
more_available == <<"M","o","r","e"," ","i","n","c","i","d","e","n","t","s"," ","a","v","a","i","l","a","b","l","e","."," ","U","s","e"," ","q","u","e","r","y","_","o","p","e","n","_","i","n","c","i","d","e","n","t","s"," ","w","i","t","h"," ","p","a","g","e","_","n","u","m","b","e","r","=","'">>

\* the reader asks for the page it is at; no page past the last that can hold
\* a record or the one after it is ever due
RequestPage ==
    /\ pc = "idle"
    /\ ~traversal.done
    /\ traversal.page <= MaxIncidents + 2
    /\ \E n \in {Str(decimal(traversal.page))}, z \in {Str(decimal(traversal.size))} :
           LET sv == serve(store, query_open_incidents(self, n, z, unanswered).sent[1])
               made == query_open_incidents(self, n, z, sv.resp)
           IN /\ pc' = "returned"
              /\ op' = "plugin.query_open_incidents"
              /\ args' = [page_number |-> n, page_size |-> z]
              /\ resp' = sv.resp
              /\ called' = made.called
              /\ sent' = made.sent
              /\ ret' = made.out
    /\ UNCHANGED <<assistant, traversal, inflight, env, self, store, created_sys_id, creation>>

\* the reader reads the page: on to the next page when the text says more are
\* available, done otherwise
ReadPage ==
    /\ pc = "returned"
    /\ ~traversal.done
    /\ traversal' = [traversal EXCEPT
                        !.pages = Append(@, ret.value.v),
                        !.page = IF Within(more_available, ret.value.v) THEN @ + 1 ELSE @,
                        !.done = ~Within(more_available, ret.value.v)]
    /\ pc' = "idle"
    /\ UNCHANGED <<assistant, inflight, env, self, store, created_sys_id, creation, op, args,
                   called, sent, resp, ret>>

TraversalNext == RequestPage \/ ReadPage

\* the turn passes between asking and reading: the change of pc that every
\* step of the reader makes, enabled exactly when a step of the reader is
Turn ==
    /\ ~traversal.done
    /\ traversal.page <= MaxIncidents + 2
    /\ pc' = IF pc = "idle" THEN "returned" ELSE "idle"

\* the reader keeps going while it has a step to take
TraversalSpec == TraversalInit /\ [][TraversalNext]_vars /\ WF_pc(Turn)

\* ---- following the guidance (C24) ----

\* the open incidents held, which the query of query_open_incidents matches
OpenIncidents == SelectSeq(store, LAMBDA rec : rec.fields["state"].v \notin {<<"6">>, <<"7">>})

\* the pages read that list the record
PagesListing(rec) ==
    {i \in 1..Len(traversal.pages) :
        Within(<<"-"," ","I","n","c","i","d","e","n","t"," ">> \o rec.fields["number"].v \o <<":">>, traversal.pages[i])}

\* every open incident is listed on exactly one page
Covered ==
    \A i \in 1..Len(OpenIncidents) : Cardinality(PagesListing(OpenIncidents[i])) = 1

\* N a positive multiple of the page size: one request beyond the N / size
\* full pages, answered 'No open incidents found.'
OneExtraRequest ==
    LET N == Len(OpenIncidents) IN
    (N > 0 /\ N % traversal.size = 0) =>
        /\ Len(traversal.pages) = N \div traversal.size + 1
        /\ traversal.pages[Len(traversal.pages)] = <<"N","o"," ","o","p","e","n"," ","i","n","c","i","d","e","n","t","s"," ","f","o","u","n","d",".">>

TraversalDone == traversal.done /\ traversal.size > 0

\* C24: with a fixed set of N matching incidents, a page size s >= 1 and a
\* server that returns the records at positions offset .. offset+limit-1,
\* a reader who starts at page 1 and requests page p+1 exactly when page p
\* printed the guidance stops after finitely many requests, with every
\* matching incident listed on exactly one page, and when N is a positive
\* multiple of s with exactly one extra request, answered by the 'No ...
\* found' message.
C24_TraversalCovers ==
    /\ <>TraversalDone
    /\ [](TraversalDone => Covered /\ OneExtraRequest)

\* three open incidents read in pages of three: one full page and the extra
\* request
C24_Witness ==
    /\ TraversalDone /\ Len(OpenIncidents) = 3 /\ traversal.size = 3
    /\ Len(store) = 4 /\ Len(traversal.pages) = 2


---------------------------------------------------------------------------
(* The text of a page (C25).                                               *)

PagedFunctions ==
    {"plugin.query_open_incidents", "plugin.query_high_priority_incidents",
     "plugin.search_incidents"}

\* a paged function has returned after the facade gave it a success result
PageSucceeded ==
    /\ pc = "returned" /\ op \in PagedFunctions
    /\ called # <<>>
    /\ ~called[1].out.raised
    /\ called[1].out.value.success

PageResult == called[1].out.value

\* the result's incidents are a list of records
IncidentsListed ==
    /\ PageResult.incidents.t = "list"
    /\ \A i \in 1..Len(PageResult.incidents.v) : PageResult.incidents.v[i].t = "dict"

\* the places of the text where u begins
PositionsOf(u, t) == {i \in 1..(Len(t) - Len(u) + 1) : SubSeq(t, i, i + Len(u) - 1) = u}

\* the i-th smallest member of a set of numbers
Nth(S, i) == CHOOSE p \in S : Cardinality({q \in S : q < p}) = i - 1

entry_begins == <<"\n","-"," ","I","n","c","i","d","e","n","t"," ">>

\* the text has one entry per incident, in the order of the list
EntriesInOrder(text, incidents) ==
    LET places == PositionsOf(entry_begins, text) IN
    /\ Cardinality(places) = Len(incidents)
    /\ \A i \in 1..Len(incidents) :
          LET head == Format(Get(incidents[i], "number", None)) \o <<":"," ">>
                      \o Format(Get(incidents[i], "short_description", None)) \o <<"\n">>
              from == Nth(places, i) + Len(entry_begins)
          IN /\ from + Len(head) - 1 <= Len(text)
             /\ SubSeq(text, from, from + Len(head) - 1) = head

\* the page number given, as int() reads it
PageGiven == int(args.page_number).value

guidance_begins == <<"\n","\n","M","o","r","e"," ">>

\* the guidance of the function to continue at page n ends the text
GuidanceTo(text, n) ==
    LET tail == <<"p","a","g","e","_","n","u","m","b","e","r","=","'">> \o decimal(n) \o <<"'"," ","t","o"," ","c","o","n","t","i","n","u","e",".">> IN
    /\ Cardinality(PositionsOf(guidance_begins, text)) = 1
    /\ Len(text) >= Len(tail)
    /\ SubSeq(text, Len(text) - Len(tail) + 1, Len(text)) = tail
    /\ Within(CASE op = "plugin.query_open_incidents" -> <<"U","s","e"," ","q","u","e","r","y","_","o","p","e","n","_","i","n","c","i","d","e","n","t","s"," ","w","i","t","h"," ">>
                 [] op = "plugin.query_high_priority_incidents" -> <<"U","s","e"," ","q","u","e","r","y","_","h","i","g","h","_","p","r","i","o","r","i","t","y","_","i","n","c","i","d","e","n","t","s"," ","w","i","t","h"," ">>
                 [] op = "plugin.search_incidents" -> <<"U","s","e"," ","s","e","a","r","c","h","_","i","n","c","i","d","e","n","t","s"," ","w","i","t","h"," ">>, text)

\* the function's message for an empty page
NoneFound ==
    CASE op = "plugin.query_open_incidents" -> <<"N","o"," ","o","p","e","n"," ","i","n","c","i","d","e","n","t","s"," ","f","o","u","n","d",".">>
      [] op = "plugin.query_high_priority_incidents" -> <<"N","o"," ","h","i","g","h"," ","p","r","i","o","r","i","t","y"," ","i","n","c","i","d","e","n","t","s"," ","f","o","u","n","d",".">>
      [] op = "plugin.search_incidents" ->
            <<"N","o"," ","i","n","c","i","d","e","n","t","s"," ","f","o","u","n","d"," ","m","a","t","c","h","i","n","g"," ","'">> \o args.search_text.v \o <<"'",".">>

\* the range of the records shown
Showing(offset, count) ==
    <<" ","(","s","h","o","w","i","n","g"," ">> \o decimal(offset + 1) \o <<"-">> \o decimal(offset + count) \o <<")",":","\n">>

PageRendered ==
    LET text == ret.value.v
        offset == called[1].args.offset
    IN /\ ~ret.raised
       /\ Within(<<" ","-"," ","P","a","g","e"," ">> \o decimal(PageGiven) \o Showing(offset, PageResult.count), text)
       /\ EntriesInOrder(text, PageResult.incidents.v)
       /\ IF PageResult.has_more THEN GuidanceTo(text, PageGiven + 1)
          ELSE ~Within(guidance_begins, text)

C25_WitnessNone ==
    /\ PageSucceeded /\ PageResult.count = 0 /\ PageResult.has_more
    /\ ret = Return(Str(NoneFound))

\* a page without more to come
C25_WitnessLast ==
    /\ PageSucceeded /\ PageResult.count = 1 /\ IncidentsListed /\ ~PageResult.has_more
    /\ op = "plugin.search_incidents"


---------------------------------------------------------------------------
(* Which lookup the single-record functions make (C26).                    *)

SingleRecordFunctions == {"plugin.get_incident", "servicenow_get_case"}

\* the identifiers the call was given: sys_id and number
SysIdGiven == IF op = "plugin.get_incident" THEN args.incident_sys_id ELSE args.case_sys_id
NumberGiven == IF op = "plugin.get_incident" THEN args.incident_number ELSE args.case_number

\* None and '' are both not given
Given(x) == x.t = "str" /\ x.v # <<>>

\* one GET of the record's own address
LookedUpBySysId(id) ==
    /\ Len(sent) = 1
    /\ sent[1].method = "GET"
    /\ sent[1].url = table_url(self, incident_table) \o <<"/">> \o id.v
    /\ sent[1].params = <<>>
    /\ Len(called) = 1
    /\ called[1].op = (IF op = "plugin.get_incident" THEN "get_incident" ELSE "get_case")

\* one GET of the table, filtered by the number
LookedUpByNumber(n) ==
    /\ Len(sent) = 1
    /\ sent[1].method = "GET"
    /\ sent[1].url = table_url(self, incident_table)
    /\ sent[1].params.sysparm_query = Str(<<"n","u","m","b","e","r","=">> \o n.v)
    /\ Len(called) = 1
    /\ called[1].op = (IF op = "plugin.get_incident" THEN "get_incident_by_number"
                       ELSE "get_case_by_number")

ProvideEither ==
    IF op = "plugin.get_incident"
    THEN <<"P","l","e","a","s","e"," ","p","r","o","v","i","d","e"," ","e","i","t","h","e","r"," ","a","n"," ","i","n","c","i","d","e","n","t","_","n","u","m","b","e","r"," ","o","r"," ","i","n","c","i","d","e","n","t","_","s","y","s","_","i","d">>
    ELSE <<"E","r","r","o","r",":"," ","M","u","s","t"," ","p","r","o","v","i","d","e"," ","e","i","t","h","e","r"," ","c","a","s","e","_","s","y","s","_","i","d"," ","o","r"," ","c","a","s","e","_","n","u","m","b","e","r">>

\* C26: plugin get_incident and tool servicenow_get_case choose the lookup
\* by the identifier given: a non-empty sys_id is looked up by sys_id, the
\* number ignored even when given; otherwise a non-empty number is looked up
\* by number; with both empty the function returns its 'provide either'
\* message and issues no request.
C26_LookupChosen ==
    (pc = "returned" /\ op \in SingleRecordFunctions) =>
        IF Given(SysIdGiven) THEN LookedUpBySysId(SysIdGiven)
        ELSE IF Given(NumberGiven) THEN LookedUpByNumber(NumberGiven)
        ELSE sent = <<>> /\ called = <<>> /\ ret = Return(Str(ProvideEither))

\* both identifiers given to get_incident: the sys_id is looked up
C26_Witness ==
    /\ pc = "returned" /\ op = "plugin.get_incident"
    /\ Given(SysIdGiven) /\ Given(NumberGiven)
    /\ LookedUpBySysId(SysIdGiven)

\* only the number given to servicenow_get_case
C26_WitnessByNumber ==
    /\ pc = "returned" /\ op = "servicenow_get_case"
    /\ ~Given(SysIdGiven) /\ Given(NumberGiven) /\ LookedUpByNumber(NumberGiven)

\* neither given
C26_WitnessNeither ==
    /\ pc = "returned" /\ op \in SingleRecordFunctions
    /\ ~Given(SysIdGiven) /\ ~Given(NumberGiven) /\ sent = <<>>


---------------------------------------------------------------------------
(* What servicenow_update_case sends (C29).                                *)

UpdatableFields == {"state", "priority", "short_description", "description", "assigned_to"}

\* the fields the call supplied non-empty
FieldsSupplied == {k \in UpdatableFields : Given(args[k])}

no_updates == <<"N","o"," ","u","p","d","a","t","e","s"," ","p","r","o","v","i","d","e","d","."," ","P","l","e","a","s","e"," ","s","p","e","c","i","f","y"," ","a","t"," ","l","e","a","s","t"," ","o","n","e"," ","f","i","e","l","d"," ","t","o"," ","u","p","d","a","t","e",".">>

\* one PATCH of the case whose body has the supplied fields and no other
UpdateSent ==
    /\ Len(sent) = 1
    /\ sent[1].method = "PATCH"
    /\ sent[1].url = table_url(self, incident_table) \o <<"/">> \o args.case_sys_id.v
    /\ sent[1].json.t = "dict"
    /\ DOMAIN sent[1].json.v = FieldsSupplied
    /\ \A k \in FieldsSupplied : sent[1].json.v[k] = args[k]

C29_WitnessNone ==
    /\ pc = "returned" /\ op = "servicenow_update_case"
    /\ FieldsSupplied = {} /\ args.priority = Str(<<>>) /\ sent = <<>>

---------------------------------------------------------------------------
(* The dispatch of servicenow_query_cases (C30).                           *)

\* query_type -> the facade operation and the parameter it requires
Dispatch ==
    (<<"o","p","e","n">> :> [operation |-> "get_open_cases", requires |-> "none"])
    @@ (<<"h","i","g","h","_","p","r","i","o","r","i","t","y">> :> [operation |-> "get_high_priority_cases", requires |-> "none"])
    @@ (<<"c","u","s","t","o","m">> :> [operation |-> "query_cases", requires |-> "query"])
    @@ (<<"s","e","a","r","c","h">> :> [operation |-> "search_cases_by_text", requires |-> "search_text"])
    @@ (<<"b","y","_","c","o","n","t","a","c","t">> :> [operation |-> "get_cases_by_contact", requires |-> "contact_sys_id"])
    @@ (<<"b","y","_","a","c","c","o","u","n","t">> :> [operation |-> "get_cases_by_account", requires |-> "account_sys_id"])

\* the call names one of the six types and gives what the type requires
Dispatchable ==
    /\ args.query_type.v \in DOMAIN Dispatch
    /\ LET p == Dispatch[args.query_type.v].requires IN p # "none" => Given(args[p])

\* exactly the type's facade operation, with the limit and the required
\* parameter as given, and its one request
Dispatched ==
    LET d == Dispatch[args.query_type.v] IN
    /\ Len(called) = 1
    /\ called[1].op = d.operation
    /\ called[1].args.limit = args.limit
    /\ d.requires # "none" => called[1].args[d.requires] = args[d.requires]
    /\ Len(sent) = 1
    /\ sent[1].method = "GET"
    /\ sent[1].params["sysparm_limit"] = args.limit

BeginsWith(u, t) == Len(t) >= Len(u) /\ SubSeq(t, 1, Len(u)) = u

\* C30: servicenow_query_cases dispatches on query_type: each of 'open',
\* 'high_priority', 'custom', 'search', 'by_contact', 'by_account' calls
\* exactly its one facade operation with the given limit; any other
\* query_type, or a type whose required parameter (query, search_text,
\* contact_sys_id, account_sys_id) is absent or empty, returns an
\* 'Error: ...' text and issues no request.
C30_Dispatch ==
    (pc = "returned" /\ op = "servicenow_query_cases") =>
        IF Dispatchable THEN Dispatched
        ELSE /\ called = <<>> /\ sent = <<>>
             /\ ~ret.raised /\ BeginsWith(<<"E","r","r","o","r",":"," ">>, ret.value.v)

\* a search with its text, limit 2
C30_Witness ==
    /\ pc = "returned" /\ op = "servicenow_query_cases"
    /\ args.query_type = Str(<<"s","e","a","r","c","h">>) /\ args.limit = 2
    /\ Dispatchable /\ Dispatched

\* a type outside the six
C30_WitnessUnknown ==
    /\ pc = "returned" /\ op = "servicenow_query_cases"
    /\ args.query_type = Str(<<"c","l","o","s","e","d">>)
    /\ ret = Return(Str(<<"E","r","r","o","r",":"," ","U","n","k","n","o","w","n"," ","q","u","e","r","y","_","t","y","p","e"," ","'","c","l","o","s","e","d","'">>))

\* a custom query without its query
C30_WitnessMissing ==
    /\ pc = "returned" /\ op = "servicenow_query_cases"
    /\ args.query_type = Str(<<"c","u","s","t","o","m">>) /\ args.query = Str(<<>>)
    /\ sent = <<>>


---------------------------------------------------------------------------
(* The chat loop (chat_sk.py).  assistant is the SemanticKernelChat object *)
(* of main: chat_history the messages, running whether the loop goes on,   *)
(* user_input the line read last, asked the history handed to the chat     *)
(* service by the latest completion call, turns the calls of chat().       *)

MaxTurns == 3

\* the text of SYSTEM_MESSAGE, cut after its first instruction
SYSTEM_MESSAGE == <<"Y","o","u"," ","a","r","e"," ","a","n"," ","a","p","p","l","i","c","a","t","i","o","n"," ","s","u","p","p","o","r","t"," ","a","g","e","n","t",".">>

Message(role, content) == [role |-> role, content |-> content]

lower_of ==
    [c \in {"A","B","C","D","E","F","G","H","I","J","K","L","M","N","O","P","Q","R","S","T",
            "U","V","W","X","Y","Z"} |->
        CASE c = "A" -> "a" [] c = "B" -> "b" [] c = "C" -> "c" [] c = "D" -> "d"
          [] c = "E" -> "e" [] c = "F" -> "f" [] c = "G" -> "g" [] c = "H" -> "h"
          [] c = "I" -> "i" [] c = "J" -> "j" [] c = "K" -> "k" [] c = "L" -> "l"
          [] c = "M" -> "m" [] c = "N" -> "n" [] c = "O" -> "o" [] c = "P" -> "p"
          [] c = "Q" -> "q" [] c = "R" -> "r" [] c = "S" -> "s" [] c = "T" -> "t"
          [] c = "U" -> "u" [] c = "V" -> "v" [] c = "W" -> "w" [] c = "X" -> "x"
          [] c = "Y" -> "y" [] c = "Z" -> "z"]

\* the text as typed
as_typed(t) == t

\* str.lower()
lower(t) == [i \in 1..Len(t) |-> IF t[i] \in DOMAIN lower_of THEN lower_of[t[i]] ELSE t[i]]

\* SemanticKernelChat.add_system_message
add_system_message(a, message) ==
    [a EXCEPT !.chat_history = Append(@, Message("system", message))]

apology == <<"I"," ","a","p","o","l","o","g","i","z","e",","," ","b","u","t"," ","I"," ","c","o","u","l","d","n","'","t"," ","g","e","n","e","r","a","t","e"," ","a"," ","r","e","s","p","o","n","s","e",".">>

\* SemanticKernelChat.chat: the user message is added, the history handed to
\* the completion call; a response is added as the assistant message and
\* returned, no response gives the apology, an exception of the call leaves
\* chat() where it was raised
chat(a, user_input, completion) ==
    LET added == [a EXCEPT !.chat_history = Append(@, Message("user", user_input)),
                           !.turns = @ + 1]
        handed == [added EXCEPT !.asked = added.chat_history]
    IN IF completion.kind # "response"
       THEN [assistant |-> handed, out |-> Raise(completion.kind, completion.msg)]
       ELSE IF completion.response # <<>>
       THEN [assistant |-> [handed EXCEPT !.chat_history =
                                Append(@, Message("assistant", completion.response[1]))],
             out |-> Return(Str(completion.response[1]))]
       ELSE [assistant |-> handed, out |-> Return(Str(apology))]

\* what get_chat_message_contents can do: a list with the reply, an empty
\* list, an exception, the user's interrupt
Completions ==
    {[kind |-> "response", response |-> <<<<"o","k">>>>, msg |-> <<>>],
     [kind |-> "response", response |-> <<>>, msg |-> <<>>],
     [kind |-> "Exception", response |-> <<>>, msg |-> <<"r","a","t","e"," ","l","i","m","i","t">>],
     [kind |-> "KeyboardInterrupt", response |-> <<>>, msg |-> <<>>]}

\* lines typed at the prompt
UserInputs ==
    {<<"/","c","l","e","a","r">>, <<"/","C","L","E","A","R">>, <<"/","R","e","s","e","t">>, <<"/","q">>, <<"/","E","X","I","T">>, <<"/","Q","u","i","t">>, <<>>, <<" "," ">>,
     <<"h","i">>, <<" ","/","c","l","e","a","r">>}

ExitCommands == {<<"/","q">>, <<"/","q","u","i","t">>, <<"/","e","x","i","t">>}
ClearCommands == {<<"/","c","l","e","a","r">>, <<"/","r","e","s","e","t">>}

ChatInit ==
    /\ env \in Envs
    /\ self = init(env, incident_table)
    /\ pc = "idle"
    /\ op = "none"
    /\ args = <<>>
    /\ called = <<>>
    /\ sent = <<>>
    /\ resp = None
    /\ ret = None
    /\ store = <<>>
    /\ created_sys_id = None
    /\ creation = None
    /\ inflight = [c \in Callers |-> no_call]
    /\ traversal = no_traversal
    /\ assistant = add_system_message([no_assistant EXCEPT !.running = TRUE], SYSTEM_MESSAGE)

\* one pass of `while True:` reads a line
Reading == assistant.running /\ pc = "idle"

Unchanged == UNCHANGED <<traversal, inflight, env, self, store, created_sys_id, creation, pc, op,
                         args, called, sent, resp, ret>>

\* '/q', '/quit', '/exit': break
Quit ==
    \E user_input \in UserInputs :
        /\ Reading
        /\ lower(user_input) \in ExitCommands
        /\ assistant' = [assistant EXCEPT !.user_input = user_input, !.running = FALSE]
        /\ Unchanged

\* '/clear', '/reset': a new ChatHistory with the system message
ClearHistory ==
    \E user_input \in UserInputs :
        /\ Reading
        /\ lower(user_input) \notin ExitCommands
        /\ lower(user_input) \in ClearCommands
        /\ assistant' = add_system_message(
                            [assistant EXCEPT !.user_input = user_input, !.chat_history = <<>>],
                            SYSTEM_MESSAGE)
        /\ Unchanged

\* nothing but blanks: continue
SkipEmpty ==
    \E user_input \in UserInputs :
        /\ Reading
        /\ lower(user_input) \notin ExitCommands \cup ClearCommands
        /\ strip(user_input) = <<>>
        /\ assistant' = [assistant EXCEPT !.user_input = user_input]
        /\ Unchanged

\* any other line goes to chat(); KeyboardInterrupt breaks the loop, any
\* other exception is printed and the loop goes on
ChatTurn ==
    \E user_input \in UserInputs, completion \in Completions :
        /\ Reading
        /\ assistant.turns < MaxTurns
        /\ lower(user_input) \notin ExitCommands \cup ClearCommands
        /\ strip(user_input) # <<>>
        /\ LET made == chat([assistant EXCEPT !.user_input = user_input], user_input, completion)
           IN assistant' = [made.assistant EXCEPT
                               !.running = ~(made.out.raised
                                             /\ made.out.exc.type = "KeyboardInterrupt")]
        /\ Unchanged

\* the user interrupts at the prompt: break
InterruptedAtPrompt ==
    /\ Reading
    /\ assistant' = [assistant EXCEPT !.running = FALSE]
    /\ Unchanged

ChatNext == Quit \/ ClearHistory \/ SkipEmpty \/ ChatTurn \/ InterruptedAtPrompt

ChatSpec == ChatInit /\ [][ChatNext]_vars

\* ---- the history and the clear commands (C27) ----

\* the lines of UserInputs that are '/clear' or '/reset' in some letter case
ClearTyped == {<<"/","c","l","e","a","r">>, <<"/","C","L","E","A","R">>, <<"/","R","e","s","e","t">>}

\* no clear command is among the user messages
NoClearCommandIn(history) ==
    \A i \in 1..Len(history) :
        history[i].role = "user" => history[i].content \notin ClearTyped

\* C27: after any sequence of inputs the chat history begins with the system
\* message; right after a '/clear' or '/reset' input, in any letter case,
\* the history is exactly that one system message; a clear command is never
\* handed to the chat service and never added to the history.
C27_SystemFirst ==
    /\ assistant.chat_history # <<>>
    /\ Head(assistant.chat_history) = Message("system", SYSTEM_MESSAGE)
    /\ assistant.user_input \in ClearTyped =>
           assistant.chat_history = <<Message("system", SYSTEM_MESSAGE)>>
    /\ NoClearCommandIn(assistant.chat_history)
    /\ NoClearCommandIn(assistant.asked)

\* '/Reset' typed after a turn that was answered
C27_Witness ==
    /\ assistant.user_input = <<"/","R","e","s","e","t">>
    /\ assistant.turns >= 1 /\ assistant.asked # <<>>
    /\ assistant.chat_history = <<Message("system", SYSTEM_MESSAGE)>>


\* ---- user and assistant messages in turn (C28) ----

\* the messages after the system message
Conversation == Tail(assistant.chat_history)

\* user message, assistant message, user message, assistant message, ...
Alternates(messages) ==
    /\ Len(messages) % 2 = 0
    /\ \A i \in 1..Len(messages) :
          messages[i].role = (IF i % 2 = 1 THEN "user" ELSE "assistant")

\* C28: at the end of every pass of the loop the chat history after the
\* system message alternates user message, assistant message: every user
\* message that chat() added is followed by the assistant reply to it, also
\* when the completion call raised an exception that the loop caught, or
\* returned no response.
C28_Alternates == assistant.running => Alternates(Conversation)

\* every assistant message is the reply that follows a user message
C28_RepliesFollowUsers ==
    \A i \in 1..Len(Conversation) :
        Conversation[i].role = "assistant" => i > 1 /\ Conversation[i - 1].role = "user"

\* the loop goes on with a user message that has no reply, and hands two
\* user messages in a row to the chat service
C28_UnansweredUser ==
    /\ assistant.running
    /\ Len(assistant.asked) >= 3
    /\ assistant.asked[Len(assistant.asked)].role = "user"
    /\ assistant.asked[Len(assistant.asked) - 1].role = "user"

====
